---- MODULE Spec2Model ----
(***************************************************************************)
(* Model of the paper-trading engine of services/trade-simulator:          *)
(* order_book.py (OrderBook, OrderBookManager), rms.py                     *)
(* (RiskManagementSystem), oms.py (OrderManagementSystem) and              *)
(* portfolio.py (PortfolioManager).                                        *)
(*                                                                         *)
(* Units.  Python floats are modelled as exact numbers.  Prices and money  *)
(* are integers counted in paise (1 rupee = 100 paise); averages of prices *)
(* are exact rationals [n, d].  The inputs are drawn so that every product *)
(* quantity * price is a multiple of 2000 paise, which makes the           *)
(* percentage commission (0.05% of the value) a whole number of paise.     *)
(***************************************************************************)
EXTENDS Integers, Sequences, FiniteSets, TLC

VARIABLES
    orders,        \* db.orders: sequence of order documents, in insertion order
    trades,        \* db.trades: sequence of trade documents, in insertion order
    positions,     \* db.positions: sequence of position documents
    portfolios,    \* db.portfolios: sequence of portfolio documents
    order_books,   \* OrderBookManager.order_books: symbol -> reference into book_heap (0: no entry)
    book_heap,     \* the OrderBook objects ever constructed, by reference
    id_seq,        \* number of order ids generated so far
    last,          \* the last completed call and its outcome (what the caller saw)
    th             \* the request threads of the concurrent specification

vars == <<orders, trades, positions, portfolios, order_books, book_heap, id_seq, last, th>>

-----------------------------------------------------------------------------
(* Bounds of the model *)

\* number of place_order calls in a behaviour
MaxOrders == 2

Users == {"u1", "u2"}
Symbols == {"NIFTY_CE"}
Threads == {"t1", "t2"}

\* The random draws of _initialize_depth, sampled: the spread fraction
\* random.uniform(0.005, 0.02) in basis points, and the random.randint(50, 500)
\* quantities of the five bid and the five ask levels
BookDraws ==
    { [spread_bp |-> 100, bid_qty |-> <<80, 80, 80, 80, 80>>, ask_qty |-> <<80, 80, 80, 80, 80>>],
      [spread_bp |-> 200, bid_qty |-> <<400, 120, 80, 200, 400>>, ask_qty |-> <<400, 200, 80, 120, 400>>] }

-----------------------------------------------------------------------------
(* Program constants (money in paise) *)

\* order['price'] of a request without a price: None
NoPrice == -1
\* _get_current_price: the default 100.0
DEFAULT_PRICE == 10000
\* the starting cash balance 1000000.0
INITIAL_CASH == 100000000
\* _calculate_commission: flat_fee = 20.0
FLAT_FEE == 2000
\* _calculate_commission: value * 0.0005 = value / COMMISSION_DIV
COMMISSION_DIV == 2000
max_open_positions == 10
max_order_value == 50000000
max_loss_per_day == -5000000
\* max_position_concentration = 0.30 = CONC_NUM / CONC_DEN
CONC_NUM == 3
CONC_DEN == 10
margin_multiplier_buy == 1
margin_multiplier_sell == 5
\* _get_underlying_price: the fallback 21500 of NIFTY
UNDERLYING_NIFTY == 2150000
\* _get_lot_size: NIFTY 50
LOT_SIZE_NIFTY == 50
\* calculate_margin: 0.18 of the underlying value per lot, in percent
SPAN_PCT == 18
\* _initialize_depth: levels = 5
LEVELS == 5

-----------------------------------------------------------------------------
(* Exact arithmetic *)

Min(a, b) == IF a <= b THEN a ELSE b
Abs(a) == IF a < 0 THEN -a ELSE a

RECURSIVE GCD(_, _)
GCD(a, b) == IF b = 0 THEN a ELSE GCD(b, a % b)

\* the rational n/d in lowest terms, d > 0
Rat(n, d) ==
    LET g == GCD(Abs(n), Abs(d))
        s == IF d < 0 THEN -1 ELSE 1
    IN  [n |-> s * (n \div g), d |-> s * (d \div g)]

\* Python's None where a float is expected
NoneRat == [n |-> 0, d |-> 0]
RatInt(k) == [n |-> k, d |-> 1]
RatAdd(x, y) ==
    LET g == GCD(x.d, y.d)
    IN  Rat(x.n * (y.d \div g) + y.n * (x.d \div g), (x.d \div g) * y.d)
\* k * x for an integer k
RatScale(k, x) ==
    LET g == GCD(Abs(k), x.d)
    IN  Rat((k \div g) * x.n, x.d \div g)
RatAbs(x) == [n |-> Abs(x.n), d |-> x.d]
\* x / k for an integer k # 0
RatDivInt(x, k) ==
    LET g == GCD(Abs(x.n), Abs(k))
    IN  Rat(x.n \div g, x.d * (k \div g))
\* x > k for an integer k
RatGtInt(x, k) ==
    \/ x.n \div x.d > k
    \/ x.n \div x.d = k /\ x.n % x.d # 0

RECURSIVE SumSeq(_)
SumSeq(s) == IF s = <<>> THEN 0 ELSE Head(s) + SumSeq(Tail(s))

-----------------------------------------------------------------------------
(* order_book.py: OrderBook *)

Level(p, q, t) == [price |-> p, qty |-> q, time |-> t]

RECURSIVE InsertBy(_, _, _)
\* stable insertion of lv into the sorted sequence s; desc: price descending
InsertBy(s, lv, desc) ==
    IF s = <<>> THEN <<lv>>
    ELSE IF (IF desc THEN lv.price > Head(s).price ELSE lv.price < Head(s).price)
         THEN <<lv>> \o s
         ELSE <<Head(s)>> \o InsertBy(Tail(s), lv, desc)

RECURSIVE SortLevels(_, _)
\* list.sort(key=price), stable; desc for reverse=True
SortLevels(s, desc) ==
    IF s = <<>> THEN <<>>
    ELSE InsertBy(SortLevels(SubSeq(s, 1, Len(s) - 1), desc), s[Len(s)], desc)

\* the book with the best bid and the best ask at the mid price
NewBookNoSpread(mid_price, spread_bp, bid_qty, ask_qty) ==
    [mid_price |-> mid_price,
     bids |-> [i \in 1..LEVELS |-> Level(mid_price, bid_qty[i], 2 * i - 1)],
     asks |-> [i \in 1..LEVELS |-> Level(mid_price, ask_qty[i], 2 * i)],
     last_trade_price |-> mid_price]

\* OrderBook.__init__ with _initialize_depth; spread_bp, bid_qty, ask_qty are
\* the random draws.  Level i (0-based) is appended as bid at time 2i+1 and
\* as ask at time 2i+2.
NewBook(mid_price, spread_bp, bid_qty, ask_qty) ==
    LET half == (mid_price * spread_bp) \div 20000      \* spread / 2 = spread * 0.5
        best_bid == mid_price - half
        best_ask == mid_price + half
        bids0 == [i \in 1..LEVELS |-> Level(best_bid - (i - 1) * half, bid_qty[i], 2 * i - 1)]
        asks0 == [i \in 1..LEVELS |-> Level(best_ask + (i - 1) * half, ask_qty[i], 2 * i)]
    IN  [mid_price |-> mid_price,
         bids |-> SortLevels(bids0, TRUE),
         asks |-> SortLevels(asks0, FALSE),
         last_trade_price |-> mid_price]

\* the iteration removing the level whatever is left of it
MatchIterAlwaysPop(levels, remaining) ==
    LET lv == Head(levels)
        fill_qty == Min(remaining, lv.qty)
    IN  [fill |-> <<lv.price, fill_qty>>,
         remaining |-> remaining - fill_qty,
         levels |-> Tail(levels)]

\* the iteration putting what is left of the level behind the other levels
MatchIterRequeue(levels, remaining) ==
    LET lv == Head(levels)
        fill_qty == Min(remaining, lv.qty)
    IN  [fill |-> <<lv.price, fill_qty>>,
         remaining |-> remaining - fill_qty,
         levels |-> IF fill_qty < lv.qty
                    THEN Tail(levels) \o <<[lv EXCEPT !.qty = lv.qty - fill_qty]>>
                    ELSE Tail(levels)]

\* One iteration of the while loop of match_market_buy / match_market_sell
\* on the opposite side `levels`: the fill and the side after it.
MatchIter(levels, remaining) ==
    LET lv == Head(levels)
        fill_qty == Min(remaining, lv.qty)
    IN  [fill |-> <<lv.price, fill_qty>>,
         remaining |-> remaining - fill_qty,
         levels |-> IF fill_qty < lv.qty
                    THEN <<[lv EXCEPT !.qty = lv.qty - fill_qty]>> \o Tail(levels)
                    ELSE Tail(levels)]

RECURSIVE MatchLoop(_, _, _)
MatchLoop(levels, remaining, fills) ==
    IF remaining > 0 /\ levels # <<>>
    THEN LET it == MatchIter(levels, remaining)
         IN  MatchLoop(it.levels, it.remaining, Append(fills, it.fill))
    ELSE [fills |-> fills, levels |-> levels]

\* the last trade price taken from the first fill
LastTradeAfterFirstFill(book, fills) ==
    IF fills # <<>> THEN fills[1][1] ELSE book.last_trade_price

LastTradeAfter(book, fills) ==
    IF fills # <<>> THEN fills[Len(fills)][1] ELSE book.last_trade_price

\* match_market_buy: [fills, book]
match_market_buy(book, quantity) ==
    LET r == MatchLoop(book.asks, quantity, <<>>)
    IN  [fills |-> r.fills,
         book |-> [book EXCEPT !.asks = r.levels,
                               !.last_trade_price = LastTradeAfter(book, r.fills)]]

\* match_market_sell: [fills, book]
match_market_sell(book, quantity) ==
    LET r == MatchLoop(book.bids, quantity, <<>>)
    IN  [fills |-> r.fills,
         book |-> [book EXCEPT !.bids = r.levels,
                               !.last_trade_price = LastTradeAfter(book, r.fills)]]

RECURSIVE LimitWalkNoLimit(_, _, _, _, _)
\* the walk that goes on past the limit price
LimitWalkNoLimit(levels, i, price, remaining, buy) ==
    IF i > Len(levels) THEN <<>>
    ELSE LET fill_qty == Min(remaining, levels[i].qty)
         IN  <<(<<levels[i].price, fill_qty>>)>> \o
             (IF remaining - fill_qty = 0 THEN <<>>
              ELSE LimitWalkNoLimit(levels, i + 1, price, remaining - fill_qty, buy))

RECURSIVE LimitWalk(_, _, _, _, _)
\* the for loop of check_limit_buy (buy = TRUE) / check_limit_sell over the
\* opposite side from index i; the book is only read
LimitWalk(levels, i, price, remaining, buy) ==
    IF i > Len(levels) THEN <<>>
    ELSE IF (IF buy THEN levels[i].price > price ELSE levels[i].price < price) THEN <<>>
    ELSE LET fill_qty == Min(remaining, levels[i].qty)
         IN  <<(<<levels[i].price, fill_qty>>)>> \o
             (IF remaining - fill_qty = 0 THEN <<>>
              ELSE LimitWalk(levels, i + 1, price, remaining - fill_qty, buy))

\* check_limit_buy filling at the best ask without the test of the limit
check_limit_buy_best_ask(book, price, quantity) ==
    IF book.asks = <<>> THEN <<>>
    ELSE <<(<<book.asks[1].price, Min(quantity, book.asks[1].qty)>>)>>

\* check_limit_buy; None is returned as <<>> (the caller takes `fills or []`)
check_limit_buy(book, price, quantity) ==
    IF book.asks = <<>> THEN <<>>
    ELSE IF book.asks[1].price <= price
         THEN LimitWalk(book.asks, 1, price, quantity, TRUE)
         ELSE <<>>

\* check_limit_sell
check_limit_sell(book, price, quantity) ==
    IF book.bids = <<>> THEN <<>>
    ELSE IF book.bids[1].price >= price
         THEN LimitWalk(book.bids, 1, price, quantity, FALSE)
         ELSE <<>>

\* the update moving every price by the difference of the mid prices
update_market_price_additive(book, new_mid_price) ==
    LET shift(levels) == [i \in 1..Len(levels) |->
                            [levels[i] EXCEPT !.price =
                                levels[i].price + (new_mid_price - book.mid_price)]]
    IN  [book EXCEPT !.bids = shift(book.bids),
                     !.asks = shift(book.asks),
                     !.mid_price = new_mid_price]

\* update_market_price: every level price is multiplied by
\* 1 + (new_mid_price - mid_price) / mid_price; the inputs of the model keep
\* the product a whole number of paise
update_market_price(book, new_mid_price) ==
    LET shift(levels) == [i \in 1..Len(levels) |->
                            [levels[i] EXCEPT !.price =
                                (levels[i].price * new_mid_price) \div book.mid_price]]
    IN  [book EXCEPT !.bids = shift(book.bids),
                     !.asks = shift(book.asks),
                     !.mid_price = new_mid_price]

-----------------------------------------------------------------------------
(* The persistent store: find_one returns the first matching document *)

FirstIdx(s, P(_)) ==
    LET I == {i \in 1..Len(s) : P(s[i])}
    IN  IF I = {} THEN 0 ELSE CHOOSE i \in I : \A j \in I : i <= j

LastIdx(s, P(_)) ==
    LET I == {i \in 1..Len(s) : P(s[i])}
    IN  IF I = {} THEN 0 ELSE CHOOSE i \in I : \A j \in I : i >= j

RemoveAt(s, i) == SubSeq(s, 1, i - 1) \o SubSeq(s, i + 1, Len(s))

\* the find_one of the portfolio without the filter on the user
FindPortfolioAnyUser(pfs, u) == IF pfs = <<>> THEN 0 ELSE 1
FindPortfolio(pfs, u) == FirstIdx(pfs, LAMBDA p : p.user_id = u)
FindPosition(poss, u, sym) == FirstIdx(poss, LAMBDA p : p.user_id = u /\ p.symbol = sym)
FindPositionById(poss, id) == FirstIdx(poss, LAMBDA p : p.id = id)
FindOrderById(ords, id) == FirstIdx(ords, LAMBDA o : o.order_id = id)
\* the find_one of cancel_order with the filter on the order id alone
FindOrderAnyUser(ords, id, u) == FindOrderById(ords, id)
FindOrder(ords, id, u) == FirstIdx(ords, LAMBDA o : o.order_id = id /\ o.user_id = u)

\* PortfolioManager._create_initial_portfolio / the literal of _update_portfolio
InitialPortfolio(u) ==
    [user_id |-> u,
     cash_balance |-> INITIAL_CASH,
     margin_used |-> 0,
     margin_available |-> INITIAL_CASH]

\* OrderManagementSystem._get_current_price: the cached quote, else the price
\* of the most recent trade of the symbol, else the default
current_price_of(trs, sym, cached) ==
    IF cached # NoPrice THEN cached
    ELSE LET i == LastIdx(trs, LAMBDA t : t.symbol = sym)
         IN  IF i # 0 THEN trs[i].price ELSE DEFAULT_PRICE

\* OrderManagementSystem._calculate_commission
calculate_commission(value) == Min(FLAT_FEE, value \div COMMISSION_DIV)

-----------------------------------------------------------------------------
(* rms.py: RiskManagementSystem *)

\* calculate_margin (product NIFTY, no cached underlying quote).  For a SELL
\* the price is not read.
calculate_margin(order, current_price) ==
    IF order.side = "BUY"
    THEN LET price == IF order.order_type = "MARKET" THEN current_price ELSE order.price
         IN  order.quantity * price * margin_multiplier_buy
    ELSE \* margin_per_lot * (quantity / lot_size) * multiplier
         LET margin_per_lot == (UNDERLYING_NIFTY * LOT_SIZE_NIFTY * SPAN_PCT) \div 100
         IN  (margin_per_lot \div LOT_SIZE_NIFTY) * order.quantity * margin_multiplier_sell

Passed == [kind |-> "OK", reason |-> "None"]
Raise(k, r) == [kind |-> k, reason |-> r]
\* a call that returns normally
NoError == [kind |-> "none", reason |-> "None"]

\* _check_margin comparing the required margin with the cash balance
check_margin_cash(pfs, u, order, current_price) ==
    LET i == FindPortfolio(pfs, u)
    IN  IF i = 0 THEN Raise("InsufficientFundsError", "Portfolio not found")
        ELSE IF pfs[i].cash_balance < calculate_margin(order, current_price)
             THEN Raise("InsufficientFundsError", "Insufficient margin")
             ELSE Passed

\* _check_margin
check_margin(pfs, u, order, current_price) ==
    IF order.side = "BUY" /\ order.order_type # "MARKET" /\ order.price = NoPrice
    THEN Raise("TypeError", "unsupported operand")
    ELSE LET i == FindPortfolio(pfs, u)
         IN  IF i = 0 THEN Raise("InsufficientFundsError", "Portfolio not found")
             ELSE IF pfs[i].margin_available < calculate_margin(order, current_price)
                  THEN Raise("InsufficientFundsError", "Insufficient margin")
                  ELSE Passed

\* the test taking any position in the symbol as offsetting
has_offsetting_position_any_sign(poss, u, order) ==
    FindPosition(poss, u, order.symbol) # 0

\* _has_offsetting_position
has_offsetting_position(poss, u, order) ==
    LET i == FindPosition(poss, u, order.symbol)
    IN  IF i = 0 THEN FALSE
        ELSE \/ order.side = "BUY" /\ poss[i].quantity < 0
             \/ order.side = "SELL" /\ poss[i].quantity > 0

\* _check_position_limits
check_position_limits(poss, u, order) ==
    IF /\ order.side = "SELL"
       /\ ~has_offsetting_position(poss, u, order)
       /\ Len(SelectSeq(poss, LAMBDA p : p.user_id = u)) >= max_open_positions
    THEN Raise("PositionLimitError", "Maximum positions allowed")
    ELSE Passed

\* _check_order_value: order.get('price', current_price) is order['price'],
\* the key being always present; None times the quantity is a TypeError
check_order_value(order, current_price) ==
    IF order.price = NoPrice
    THEN Raise("TypeError", "unsupported operand")
    ELSE IF order.quantity * order.price > max_order_value
         THEN Raise("OrderValueLimitError", "Order value exceeds limit")
         ELSE Passed

\* the realized P&L of _check_daily_loss over the user's trades
DailyRealized(trs, u) ==
    SumSeq([i \in 1..Len(trs) |->
              IF trs[i].user_id # u THEN 0
              ELSE IF trs[i].side = "BUY" THEN -trs[i].net_value ELSE trs[i].net_value])

\* _check_daily_loss
check_daily_loss(trs, poss, u) ==
    LET unrealized == SumSeq([i \in 1..Len(poss) |->
                                IF poss[i].user_id = u THEN poss[i].unrealized_pnl ELSE 0])
    IN  IF DailyRealized(trs, u) + unrealized < max_loss_per_day
        THEN Raise("DailyLossLimitError", "Daily loss limit exceeded")
        ELSE Passed

RECURSIVE RatSum(_)
RatSum(s) == IF s = <<>> THEN RatInt(0) ELSE RatAdd(Head(s), RatSum(Tail(s)))

\* current_exposure of _check_concentration
ProductExposure(poss, u, product) ==
    RatSum([i \in 1..Len(poss) |->
              IF poss[i].user_id = u /\ poss[i].product = product
              THEN RatAbs(RatScale(poss[i].quantity, poss[i].current_price))
              ELSE RatInt(0)])

\* _check_concentration without the value of the order in the exposure
check_concentration_held_only(pfs, poss, u, order, current_price) ==
    LET i == FindPortfolio(pfs, u)
        total_value == pfs[i].cash_balance + pfs[i].margin_used
    IN  IF i = 0 THEN Raise("AttributeError", "NoneType has no attribute get")
        ELSE IF total_value > 0
                /\ RatGtInt(RatScale(CONC_DEN, ProductExposure(poss, u, order.product)),
                            CONC_NUM * total_value)
             THEN Raise("ConcentrationLimitError", "Product concentration exceeds limit")
             ELSE Passed

\* _check_concentration
check_concentration(pfs, poss, u, order, current_price) ==
    LET i == FindPortfolio(pfs, u)
        total_value == pfs[i].cash_balance + pfs[i].margin_used
        new_exposure == RatAdd(ProductExposure(poss, u, order.product),
                               RatInt(order.quantity * current_price))
    IN  IF i = 0 THEN Raise("AttributeError", "NoneType has no attribute get")
        ELSE IF total_value > 0
                /\ RatGtInt(RatScale(CONC_DEN, new_exposure), CONC_NUM * total_value)
             THEN Raise("ConcentrationLimitError", "Product concentration exceeds limit")
             ELSE Passed

\* the checks with the order value checked before the margin
pre_trade_risk_check_value_first(pfs, poss, trs, u, order, current_price) ==
    LET c1 == check_margin(pfs, u, order, current_price)
        c2 == check_position_limits(poss, u, order)
        c3 == check_order_value(order, current_price)
        c4 == check_daily_loss(trs, poss, u)
        c5 == check_concentration(pfs, poss, u, order, current_price)
    IN  IF c3 # Passed THEN c3
        ELSE IF c1 # Passed THEN c1
        ELSE IF c2 # Passed THEN c2
        ELSE IF c4 # Passed THEN c4
        ELSE c5

\* pre_trade_risk_check: the five checks in their order, the first failure raised
pre_trade_risk_check(pfs, poss, trs, u, order, current_price) ==
    LET c1 == check_margin(pfs, u, order, current_price)
        c2 == check_position_limits(poss, u, order)
        c3 == check_order_value(order, current_price)
        c4 == check_daily_loss(trs, poss, u)
        c5 == check_concentration(pfs, poss, u, order, current_price)
    IN  IF c1 # Passed THEN c1
        ELSE IF c2 # Passed THEN c2
        ELSE IF c3 # Passed THEN c3
        ELSE IF c4 # Passed THEN c4
        ELSE c5

RiskViolations == {"InsufficientFundsError", "PositionLimitError", "OrderValueLimitError",
                   "DailyLossLimitError", "ConcentrationLimitError"}

-----------------------------------------------------------------------------
(* oms.py: OrderManagementSystem *)

\* the order document built by place_order (lines 43-61)
NewOrder(id, u, req) ==
    [order_id |-> id,
     user_id |-> u,
     symbol |-> req.symbol,
     product |-> "NIFTY",
     order_type |-> req.order_type,
     side |-> req.side,
     quantity |-> req.quantity,
     price |-> req.price,
     status |-> "PENDING",
     filled_quantity |-> 0,
     avg_fill_price |-> NoneRat,
     rejection_reason |-> "None"]

\* the except branch of place_order: the document that is inserted
RejectedWithoutReason(order, reason) ==
    [order EXCEPT !.status = "REJECTED"]

Rejected(order, reason) ==
    [order EXCEPT !.status = "REJECTED", !.rejection_reason = reason]

\* _execute_market_order / _execute_limit_order on the book: [fills, book]
ExecuteOnBook(order, book) ==
    IF order.order_type = "MARKET"
    THEN IF order.side = "BUY" THEN match_market_buy(book, order.quantity)
                               ELSE match_market_sell(book, order.quantity)
    ELSE [fills |-> IF order.side = "BUY"
                    THEN check_limit_buy(book, order.price, order.quantity)
                    ELSE check_limit_sell(book, order.price, order.quantity),
          book |-> book]

FillValue(fills) == SumSeq([i \in 1..Len(fills) |-> fills[i][1] * fills[i][2]])
FillQty(fills) == SumSeq([i \in 1..Len(fills) |-> fills[i][2]])

\* the fill fields with the price of the first fill as the average
ApplyFillsFirstPrice(order, fills) ==
    IF fills = <<>> THEN order
    ELSE LET total_qty == FillQty(fills)
         IN  [order EXCEPT !.filled_quantity = total_qty,
                           !.avg_fill_price = RatInt(fills[1][1]),
                           !.status = IF total_qty = order.quantity
                                      THEN "FILLED" ELSE "PARTIALLY_FILLED"]

\* the fill fields with the status FILLED for any fill
ApplyFillsAlwaysFilled(order, fills) ==
    IF fills = <<>> THEN order
    ELSE LET total_value == FillValue(fills)
             total_qty == FillQty(fills)
         IN  [order EXCEPT !.filled_quantity = total_qty,
                           !.avg_fill_price = Rat(total_value, total_qty),
                           !.status = "FILLED"]

\* _execute_order lines 106-120: the fill fields and the status of the order
ApplyFills(order, fills) ==
    IF fills = <<>> THEN order
    ELSE LET total_value == FillValue(fills)
             total_qty == FillQty(fills)
         IN  [order EXCEPT !.filled_quantity = total_qty,
                           !.avg_fill_price = Rat(total_value, total_qty),
                           !.status = IF total_qty = order.quantity
                                      THEN "FILLED" ELSE "PARTIALLY_FILLED"]

\* one trade document for the whole order, at the price of its first fill
generate_trades_merged(order, fills) ==
    LET value == order.filled_quantity * fills[1][1]
        commission == calculate_commission(value)
    IN  <<[order_id |-> order.order_id,
           user_id |-> order.user_id,
           symbol |-> order.symbol,
           side |-> order.side,
           quantity |-> order.filled_quantity,
           price |-> fills[1][1],
           value |-> value,
           commission |-> commission,
           net_value |-> IF order.side = "BUY" THEN value + commission
                                               ELSE value - commission]>>

\* _generate_trades: one trade document per fill
generate_trades(order, fills) ==
    [i \in 1..Len(fills) |->
        LET value == fills[i][2] * fills[i][1]
            commission == calculate_commission(value)
        IN  [order_id |-> order.order_id,
             user_id |-> order.user_id,
             symbol |-> order.symbol,
             side |-> order.side,
             quantity |-> fills[i][2],
             price |-> fills[i][1],
             value |-> value,
             commission |-> commission,
             net_value |-> IF order.side = "BUY" THEN value + commission
                                                 ELSE value - commission]]

\* _update_position lines 203-231, on the document `position` that find_one
\* returned: the write that follows
PositionWrite(position, order) ==
    LET filled_qty == order.filled_quantity
        avg_price == order.avg_fill_price
        current_qty == position.quantity
        current_avg == position.avg_entry_price
        new_qty == IF order.side = "BUY" THEN current_qty + filled_qty
                                         ELSE current_qty - filled_qty
        total_cost == RatAdd(RatScale(current_qty, current_avg),
                             RatScale(filled_qty, avg_price))
        new_avg == IF order.side = "BUY"
                   THEN (IF new_qty > 0 THEN RatDivInt(total_cost, new_qty) ELSE RatInt(0))
                   ELSE current_avg
    IN  [delete |-> new_qty = 0, id |-> position.id,
         quantity |-> new_qty, avg_entry_price |-> new_avg]

\* the write that updates the position also when its quantity becomes 0
ApplyPositionWriteNoDelete(poss, w) ==
    LET i == FindPositionById(poss, w.id)
    IN  IF i = 0 THEN poss
        ELSE [poss EXCEPT ![i].quantity = w.quantity,
                          ![i].avg_entry_price = w.avg_entry_price]

\* delete_one / update_one by _id
ApplyPositionWrite(poss, w) ==
    LET i == FindPositionById(poss, w.id)
    IN  IF i = 0 THEN poss
        ELSE IF w.delete THEN RemoveAt(poss, i)
        ELSE [poss EXCEPT ![i].quantity = w.quantity,
                          ![i].avg_entry_price = w.avg_entry_price]

\* _update_position lines 233-257: the document of a new position
NewPosition(order) ==
    [id |-> order.order_id,
     user_id |-> order.user_id,
     symbol |-> order.symbol,
     product |-> order.product,
     quantity |-> IF order.side = "BUY" THEN order.filled_quantity
                                        ELSE -order.filled_quantity,
     avg_entry_price |-> order.avg_fill_price,
     current_price |-> order.avg_fill_price,
     unrealized_pnl |-> 0]

\* _update_position
update_position(poss, order) ==
    LET i == FindPosition(poss, order.user_id, order.symbol)
    IN  IF i # 0 THEN ApplyPositionWrite(poss, PositionWrite(poss[i], order))
        ELSE Append(poss, NewPosition(order))

\* the write with the available margin lowered by the margin change alone
PortfolioWriteAvailableByMargin(portfolio, order) ==
    LET value == RatScale(order.filled_quantity, order.avg_fill_price).n
        commission == calculate_commission(value)
        cash_change == IF order.side = "BUY" THEN -(value + commission)
                                             ELSE value - commission
        margin_change == IF order.side = "BUY" THEN value
                         ELSE calculate_margin(order, order.avg_fill_price)
    IN  [cash_balance |-> portfolio.cash_balance + cash_change,
         margin_used |-> portfolio.margin_used + margin_change,
         margin_available |-> portfolio.margin_available - margin_change]

\* _update_portfolio lines 278-294, on the document `portfolio` that was read
PortfolioWrite(portfolio, order) ==
    LET value == RatScale(order.filled_quantity, order.avg_fill_price).n
        commission == calculate_commission(value)
        cash_change == IF order.side = "BUY" THEN -(value + commission)
                                             ELSE value - commission
        margin_change == IF order.side = "BUY" THEN value
                         ELSE calculate_margin(order, order.avg_fill_price)
        new_cash == portfolio.cash_balance + cash_change
        new_margin_used == portfolio.margin_used + margin_change
    IN  [cash_balance |-> new_cash,
         margin_used |-> new_margin_used,
         margin_available |-> new_cash - new_margin_used]

\* update_one({'user_id': u}, {'$set': ...})
ApplyPortfolioWrite(pfs, u, w) ==
    LET i == FindPortfolio(pfs, u)
    IN  IF i = 0 THEN pfs
        ELSE [pfs EXCEPT ![i].cash_balance = w.cash_balance,
                         ![i].margin_used = w.margin_used,
                         ![i].margin_available = w.margin_available]

\* _update_portfolio lines 262-276: the portfolio is created when none is stored
EnsurePortfolio(pfs, u) ==
    IF FindPortfolio(pfs, u) = 0 THEN Append(pfs, InitialPortfolio(u)) ELSE pfs

\* _update_portfolio
update_portfolio(pfs, order) ==
    LET i == FindPortfolio(pfs, order.user_id)
        portfolio == IF i = 0 THEN InitialPortfolio(order.user_id) ELSE pfs[i]
    IN  ApplyPortfolioWrite(EnsurePortfolio(pfs, order.user_id), order.user_id,
                            PortfolioWrite(portfolio, order))

\* cancel_order without the test of the status
cancel_outcome_any_status(ords, u, id) ==
    IF FindOrder(ords, id, u) = 0 THEN Raise("ValueError", "Order not found") ELSE NoError

\* cancel_order: the error raised, or "none"
cancel_outcome(ords, u, id) ==
    LET i == FindOrder(ords, id, u)
    IN  IF i = 0 THEN Raise("ValueError", "Order not found")
        ELSE IF ords[i].status # "PENDING"
             THEN Raise("ValueError", "Cannot cancel order in status")
             ELSE NoError

\* update_one({'order_id': id}, {'$set': {'status': 'CANCELLED'}})
SetCancelled(ords, id) ==
    LET i == FindOrderById(ords, id)
    IN  IF i = 0 THEN ords ELSE [ords EXCEPT ![i].status = "CANCELLED"]

-----------------------------------------------------------------------------
(* portfolio.py: PortfolioManager *)

RECURSIVE MatchBuys(_, _, _, _, _, _)
\* the inner loop of _calculate_realized_pnl from the k-th buy on: sell_qty
\* is what is left of the sell, matched[k] the 'matched' mark of the k-th
\* buy, total the running total_realized
MatchBuys(buys, matched, k, sell, sell_qty, total) ==
    IF k > Len(buys) THEN [matched |-> matched, total |-> total]
    ELSE IF matched[k] >= buys[k].quantity
         THEN MatchBuys(buys, matched, k + 1, sell, sell_qty, total)
    ELSE LET available == buys[k].quantity - matched[k]
             match_qty == Min(sell_qty, available)
             buy_cost == (buys[k].value * match_qty) \div buys[k].quantity
             sell_revenue == (sell.value * match_qty) \div sell.quantity
             commission == buys[k].commission + sell.commission
             pnl == sell_revenue - buy_cost - commission
             matched1 == [matched EXCEPT ![k] = matched[k] + match_qty]
         IN  IF sell_qty - match_qty = 0
             THEN [matched |-> matched1, total |-> total + pnl]
             ELSE MatchBuys(buys, matched1, k + 1, sell, sell_qty - match_qty, total + pnl)

RECURSIVE MatchSells(_, _, _, _, _)
\* the loop over the sells of one symbol
MatchSells(buys, sells, matched, j, total) ==
    IF j > Len(sells) THEN total
    ELSE LET r == MatchBuys(buys, matched, 1, sells[j], sells[j].quantity, total)
         IN  MatchSells(buys, sells, r.matched, j + 1, r.total)

\* the buys / sells of a user in a symbol, in the order find returns them
TradesOn(trs, u, sym, side) ==
    SelectSeq(trs, LAMBDA t : t.user_id = u /\ t.symbol = sym /\ t.side = side)

\* _calculate_realized_pnl(user_id) over the whole history
calculate_realized_pnl(trs, u) ==
    LET syms == CHOOSE q \in [1..Cardinality(Symbols) -> Symbols] :
                    \A a, b \in 1..Cardinality(Symbols) : q[a] = q[b] => a = b
    IN  SumSeq([n \in 1..Cardinality(Symbols) |->
                  LET buys == TradesOn(trs, u, syms[n], "BUY")
                      sells == TradesOn(trs, u, syms[n], "SELL")
                  IN  MatchSells(buys, sells, [k \in 1..Len(buys) |-> 0], 1, 0)])

-----------------------------------------------------------------------------
(* Inputs *)

\* quantities of the requests (multiples of 40, > 0)
Quantities == {40, 560, 3200, 5200}
\* limit prices of the requests
LimitPrices == {9900, 10100}
\* the price a MARKET request may carry or not
MarketPrices == {NoPrice, 10000}
\* what _get_current_price finds under price:<symbol> in the cache
CacheReads == {NoPrice}
\* the mid prices update_book_price is called with
NewMids == {10000, 20000}

\* the requests the request layer lets through: symbol, order_type, side and
\* quantity present, a price present for LIMIT.  The large quantities, which
\* only the risk checks see, come as LIMIT BUY.
Requests ==
    {r \in [symbol : Symbols, order_type : {"MARKET", "LIMIT"}, side : {"BUY", "SELL"},
            quantity : Quantities, price : LimitPrices \cup MarketPrices] :
        /\ r.order_type = "LIMIT" => r.price \in LimitPrices
        /\ r.order_type = "MARKET" => r.price \in MarketPrices
        /\ r.quantity > 560 => r.order_type = "LIMIT" /\ r.side = "BUY" /\ r.price = 10100
        /\ r.price = NoPrice => r.quantity = 40}

\* the first user sends every request, the second user small limit orders
RequestsOf(u) ==
    IF u = "u1" THEN Requests
    ELSE {r \in Requests : r.order_type = "LIMIT" /\ r.quantity = 40}

NoRequest == [symbol |-> "None", order_type |-> "None", side |-> "None",
              quantity |-> 0, price |-> NoPrice]

NoLevel == Level(0, 0, 0)
NoPosition == [id |-> 0, user_id |-> "None", symbol |-> "None", product |-> "None",
               quantity |-> 0, avg_entry_price |-> NoneRat, current_price |-> NoneRat,
               unrealized_pnl |-> 0]
NoPortfolio == [user_id |-> "None", cash_balance |-> 0, margin_used |-> 0,
                margin_available |-> 0]

\* what the caller of the last completed call passed and saw; price is the
\* reference price place_order resolved
Outcome(op, u, req, id, price, rc) ==
    [op |-> op, user |-> u, req |-> req, order_id |-> id, price |-> price,
     raised |-> rc.kind, reason |-> rc.reason]
NoOutcome == Outcome("init", "None", NoRequest, 0, NoPrice, NoError)

\* a request thread: its position in place_order and its local variables
IdleThread ==
    [pc |-> "idle", user |-> "None", order |-> NewOrder(0, "None", NoRequest),
     price |-> NoPrice,        \* current_price
     avail_seen |-> 0,         \* available_margin read by _check_margin
     ref |-> 0,                \* order_book
     remaining |-> 0, fills |-> <<>>, lv |-> NoLevel,
     pos |-> NoPosition,       \* position read by _update_position
     pf |-> NoPortfolio]       \* portfolio read by _update_portfolio

-----------------------------------------------------------------------------
(* The sequential specification: every call runs to completion *)

Init ==
    /\ orders = <<>>
    /\ trades = <<>>
    /\ positions = <<>>
    /\ portfolios = <<>>
    /\ order_books = [s \in Symbols |-> 0]
    /\ book_heap = <<>>
    /\ id_seq = 0
    /\ last = NoOutcome
    /\ th = [t \in Threads |-> IdleThread]

Book(sym) == book_heap[order_books[sym]]
HasBook(sym) == order_books[sym] # 0

\* the except branch creating the missing portfolio of the user
RejectOrderCreatingPortfolio(order, current_price, rc) ==
    /\ orders' = Append(orders, Rejected(order, rc.reason))
    /\ last' = Outcome("place_order", order.user_id,
                       [symbol |-> order.symbol, order_type |-> order.order_type,
                        side |-> order.side, quantity |-> order.quantity,
                        price |-> order.price],
                       order.order_id, current_price, rc)
    /\ portfolios' = EnsurePortfolio(portfolios, order.user_id)
    /\ UNCHANGED <<trades, positions, order_books, book_heap>>

\* place_order lines 80-91: the except branch, taken when the risk check
\* raises rc
RejectOrder(order, current_price, rc) ==
    /\ orders' = Append(orders, Rejected(order, rc.reason))
    /\ last' = Outcome("place_order", order.user_id,
                       [symbol |-> order.symbol, order_type |-> order.order_type,
                        side |-> order.side, quantity |-> order.quantity,
                        price |-> order.price],
                       order.order_id, current_price, rc)
    /\ UNCHANGED <<trades, positions, portfolios, order_books, book_heap>>

\* place_order(user_id, order_request); cached is the cache read of
\* _get_current_price, draw the random draws of a book created by it
PlaceOrder(u, req, cached, draw) ==
    /\ id_seq < MaxOrders
    /\ \A t \in Threads : th[t].pc = "idle"
    /\ LET id == id_seq + 1
           current_price == current_price_of(trades, req.symbol, cached)
           order == NewOrder(id, u, req)
           rc == pre_trade_risk_check(portfolios, positions, trades, u, order, current_price)
       IN  /\ id_seq' = id
           /\ IF rc # Passed
              THEN RejectOrder(order, current_price, rc)
              ELSE LET heap1 == IF HasBook(req.symbol) THEN book_heap
                                ELSE Append(book_heap, NewBook(current_price, draw.spread_bp,
                                                               draw.bid_qty, draw.ask_qty))
                       ref == IF HasBook(req.symbol) THEN order_books[req.symbol]
                              ELSE Len(heap1)
                       ex == ExecuteOnBook(order, heap1[ref])
                       done == ApplyFills(order, ex.fills)
                   IN  /\ order_books' = [order_books EXCEPT ![req.symbol] = ref]
                       /\ book_heap' = [heap1 EXCEPT ![ref] = ex.book]
                       /\ IF ex.fills # <<>>
                          THEN /\ trades' = trades \o generate_trades(done, ex.fills)
                               /\ positions' = update_position(positions, done)
                               /\ portfolios' = update_portfolio(portfolios, done)
                          ELSE UNCHANGED <<trades, positions, portfolios>>
                       /\ orders' = Append(orders, done)
                       /\ last' = Outcome("place_order", u, req, id, current_price, NoError)
    /\ UNCHANGED th

\* cancel_order(user_id, order_id)
CancelOrder(u, id) ==
    /\ LET rc == cancel_outcome(orders, u, id)
       IN  /\ orders' = IF rc.kind = "none" THEN SetCancelled(orders, id) ELSE orders
           /\ last' = Outcome("cancel_order", u, NoRequest, id, NoPrice, rc)
    /\ UNCHANGED <<trades, positions, portfolios, order_books, book_heap, id_seq, th>>

\* PortfolioManager.get_portfolio: the portfolio is created on the first read
GetPortfolio(u) ==
    /\ portfolios' = EnsurePortfolio(portfolios, u)
    /\ last' = Outcome("get_portfolio", u, NoRequest, 0, NoPrice, NoError)
    /\ UNCHANGED <<orders, trades, positions, order_books, book_heap, id_seq, th>>

\* update_book_price followed by a sweep that fills the PENDING orders of the
\* symbol
UpdateBookPriceSweeping(sym, new_price) ==
    /\ HasBook(sym)
    /\ book_heap' = [book_heap EXCEPT ![order_books[sym]] =
                         update_market_price(Book(sym), new_price)]
    /\ orders' = [i \in 1..Len(orders) |->
                     IF orders[i].status = "PENDING" /\ orders[i].symbol = sym
                     THEN [orders[i] EXCEPT !.status = "FILLED",
                                            !.filled_quantity = orders[i].quantity,
                                            !.avg_fill_price = RatInt(new_price)]
                     ELSE orders[i]]
    /\ last' = Outcome("update_book_price", "None", [NoRequest EXCEPT !.symbol = sym],
                       0, new_price, NoError)
    /\ UNCHANGED <<trades, positions, portfolios, order_books, id_seq, th>>

\* update_book_price building a book at the new price for a symbol that has
\* none
UpdateBookPriceCreating(sym, new_price) ==
    /\ book_heap' = IF HasBook(sym)
                    THEN [book_heap EXCEPT ![order_books[sym]] =
                              update_market_price(Book(sym), new_price)]
                    ELSE Append(book_heap, NewBook(new_price, 100, <<80, 80, 80, 80, 80>>,
                                                   <<80, 80, 80, 80, 80>>))
    /\ order_books' = IF HasBook(sym) THEN order_books
                      ELSE [order_books EXCEPT ![sym] = Len(book_heap) + 1]
    /\ last' = Outcome("update_book_price", "None", [NoRequest EXCEPT !.symbol = sym],
                       0, new_price, NoError)
    /\ UNCHANGED <<orders, trades, positions, portfolios, id_seq, th>>

\* OrderBookManager.update_book_price(symbol, new_price), which does nothing
\* for a symbol without a book
UpdateBookPrice(sym, new_price) ==
    /\ book_heap' = IF HasBook(sym)
                    THEN [book_heap EXCEPT ![order_books[sym]] =
                              update_market_price(Book(sym), new_price)]
                    ELSE book_heap
    /\ last' = Outcome("update_book_price", "None", [NoRequest EXCEPT !.symbol = sym],
                       0, new_price, NoError)
    /\ UNCHANGED <<orders, trades, positions, portfolios, order_books, id_seq, th>>

Next ==
    \/ \E u \in Users, cached \in CacheReads, draw \in BookDraws :
         \E req \in RequestsOf(u) :
          PlaceOrder(u, req, cached, draw)
    \/ \E u \in Users, id \in 1..MaxOrders : CancelOrder(u, id)
    \/ \E u \in Users : GetPortfolio(u)
    \/ \E sym \in Symbols, new_price \in NewMids : UpdateBookPrice(sym, new_price)

Spec == Init /\ [][Next]_vars

-----------------------------------------------------------------------------
(* The concurrent specification: place_order calls of request threads,     *)
(* interleaved at their accesses to the store and to the order book.  The  *)
(* code takes no lock.                                                     *)

\* the user and the requests of the concurrent calls
ConcUsers == {"u1"}
ConcRequests ==
    {r \in Requests : \/ r.order_type = "MARKET" /\ r.side = "BUY" /\ r.price = 10000
                      \/ r.order_type = "LIMIT" /\ r.side = "SELL" /\ r.price = 9900
                         /\ r.quantity = 40}
\* the draws of the book the concurrent calls trade on
ConcDraw == CHOOSE d \in BookDraws : d.spread_bp = 200

\* the store after the user has read the portfolio once
InitConc ==
    /\ orders = <<>>
    /\ trades = <<>>
    /\ positions = <<>>
    /\ portfolios = [i \in 1..1 |-> InitialPortfolio("u1")]
    /\ order_books = [s \in Symbols |-> 0]
    /\ book_heap = <<>>
    /\ id_seq = 0
    /\ last = NoOutcome
    /\ th = [t \in Threads |-> IdleThread]

DbVars == <<orders, trades, positions, portfolios>>
BookVars == <<order_books, book_heap>>

\* the side of the book a market order of this side matches against
OppositeSide(book, side) == IF side = "BUY" THEN book.asks ELSE book.bids
WithOppositeSide(book, side, levels) ==
    IF side = "BUY" THEN [book EXCEPT !.asks = levels] ELSE [book EXCEPT !.bids = levels]

\* the call of thread t ends: the order document is inserted, the caller
\* sees the result
Finish(t, doc, rc) ==
    /\ orders' = Append(orders, doc)
    /\ last' = Outcome("place_order", th[t].user,
                       [symbol |-> doc.symbol, order_type |-> doc.order_type,
                        side |-> doc.side, quantity |-> doc.quantity, price |-> doc.price],
                       doc.order_id, th[t].price, rc)
    /\ th' = [th EXCEPT ![t] = IdleThread]

\* place_order lines 36-61
CStart(t, u, req, cached) ==
    /\ th[t].pc = "idle"
    /\ id_seq < MaxOrders
    /\ id_seq' = id_seq + 1
    /\ th' = [th EXCEPT ![t] = [IdleThread EXCEPT
                  !.pc = "risk", !.user = u,
                  !.order = NewOrder(id_seq + 1, u, req),
                  !.price = current_price_of(trades, req.symbol, cached)]]
    /\ UNCHANGED <<DbVars, BookVars, last>>

\* pre_trade_risk_check, and the except branch when it raises
CRisk(t) ==
    /\ th[t].pc = "risk"
    /\ LET rc == pre_trade_risk_check(portfolios, positions, trades, th[t].user,
                                      th[t].order, th[t].price)
           i == FindPortfolio(portfolios, th[t].user)
       IN  IF rc # Passed
           THEN /\ Finish(t, Rejected(th[t].order, rc.reason), rc)
                /\ UNCHANGED <<trades, positions, portfolios>>
           ELSE /\ th' = [th EXCEPT ![t].pc = "book",
                                    ![t].avail_seen = portfolios[i].margin_available]
                /\ UNCHANGED <<DbVars, last>>
    /\ UNCHANGED <<BookVars, id_seq>>

\* where _execute_order goes once it holds the book
ExecPc(order) == IF order.order_type = "MARKET" THEN "match_read" ELSE "limit"

\* get_or_create_book: the test `symbol not in self.order_books`
CBook(t) ==
    /\ th[t].pc = "book"
    /\ LET sym == th[t].order.symbol
       IN  th' = IF HasBook(sym)
                 THEN [th EXCEPT ![t].pc = ExecPc(th[t].order),
                                 ![t].ref = order_books[sym],
                                 ![t].remaining = th[t].order.quantity]
                 ELSE [th EXCEPT ![t].pc = "create"]
    /\ UNCHANGED <<DbVars, BookVars, id_seq, last>>

\* get_or_create_book: self.order_books[symbol] = OrderBook(symbol, current_price)
CCreate(t, draw) ==
    /\ th[t].pc = "create"
    /\ book_heap' = Append(book_heap, NewBook(th[t].price, draw.spread_bp,
                                              draw.bid_qty, draw.ask_qty))
    /\ order_books' = [order_books EXCEPT ![th[t].order.symbol] = Len(book_heap) + 1]
    /\ th' = [th EXCEPT ![t].pc = "lookup"]
    /\ UNCHANGED <<DbVars, id_seq, last>>

\* get_or_create_book: return self.order_books[symbol]
CLookup(t) ==
    /\ th[t].pc = "lookup"
    /\ th' = [th EXCEPT ![t].pc = ExecPc(th[t].order),
                        ![t].ref = order_books[th[t].order.symbol],
                        ![t].remaining = th[t].order.quantity]
    /\ UNCHANGED <<DbVars, BookVars, id_seq, last>>

\* match_market_buy / match_market_sell: the loop test, the read of the best
\* level and the fill; after the loop, the write of last_trade_price
CMatchRead(t) ==
    /\ th[t].pc = "match_read"
    /\ LET book == book_heap[th[t].ref]
           levels == OppositeSide(book, th[t].order.side)
       IN  IF th[t].remaining > 0 /\ levels # <<>>
           THEN LET it == MatchIter(levels, th[t].remaining)
                IN  /\ th' = [th EXCEPT ![t].pc = "match_write",
                                        ![t].lv = Head(levels),
                                        ![t].fills = Append(th[t].fills, it.fill),
                                        ![t].remaining = it.remaining]
                    /\ UNCHANGED book_heap
           ELSE /\ book_heap' = [book_heap EXCEPT ![th[t].ref].last_trade_price =
                                     LastTradeAfter(book, th[t].fills)]
                /\ th' = [th EXCEPT ![t].pc = "fills"]
    /\ UNCHANGED <<DbVars, order_books, id_seq, last>>

\* match_market_buy / match_market_sell: self.asks[0] = ... or self.asks.pop(0),
\* on the list as it is now; both raise IndexError on an empty list, which
\* place_order catches
CMatchWrite(t) ==
    /\ th[t].pc = "match_write"
    /\ LET book == book_heap[th[t].ref]
           side == th[t].order.side
           levels == OppositeSide(book, side)
           lv == th[t].lv
           fill_qty == th[t].fills[Len(th[t].fills)][2]
       IN  IF levels = <<>>
           THEN /\ Finish(t, Rejected(th[t].order, "IndexError"),
                          Raise("IndexError", "IndexError"))
                /\ UNCHANGED book_heap
           ELSE /\ book_heap' = [book_heap EXCEPT ![th[t].ref] =
                      WithOppositeSide(book, side,
                          IF fill_qty < lv.qty
                          THEN <<[lv EXCEPT !.qty = lv.qty - fill_qty]>> \o Tail(levels)
                          ELSE Tail(levels))]
                /\ th' = [th EXCEPT ![t].pc = "match_read"]
                /\ UNCHANGED <<orders, last>>
    /\ UNCHANGED <<trades, positions, portfolios, order_books, id_seq>>

\* _execute_limit_order: check_limit_buy / check_limit_sell read the book
CLimit(t) ==
    /\ th[t].pc = "limit"
    /\ th' = [th EXCEPT ![t].pc = "fills",
                        ![t].fills = ExecuteOnBook(th[t].order, book_heap[th[t].ref]).fills]
    /\ UNCHANGED <<DbVars, BookVars, id_seq, last>>

\* _execute_order lines 106-123: the fill fields of the order and the trades;
\* without fills place_order inserts the order and returns
CFills(t) ==
    /\ th[t].pc = "fills"
    /\ LET done == ApplyFills(th[t].order, th[t].fills)
       IN  IF th[t].fills = <<>>
           THEN /\ Finish(t, done, NoError)
                /\ UNCHANGED trades
           ELSE /\ trades' = trades \o generate_trades(done, th[t].fills)
                /\ th' = [th EXCEPT ![t].pc = "pos_read", ![t].order = done]
                /\ UNCHANGED <<orders, last>>
    /\ UNCHANGED <<positions, portfolios, BookVars, id_seq>>

\* _update_position: find_one
CPosRead(t) ==
    /\ th[t].pc = "pos_read"
    /\ LET i == FindPosition(positions, th[t].user, th[t].order.symbol)
       IN  th' = [th EXCEPT ![t].pc = "pos_write",
                            ![t].pos = IF i = 0 THEN NoPosition ELSE positions[i]]
    /\ UNCHANGED <<DbVars, BookVars, id_seq, last>>

\* _update_position: delete_one / update_one / insert_one
CPosWrite(t) ==
    /\ th[t].pc = "pos_write"
    /\ positions' = IF th[t].pos # NoPosition
                    THEN ApplyPositionWrite(positions, PositionWrite(th[t].pos, th[t].order))
                    ELSE Append(positions, NewPosition(th[t].order))
    /\ th' = [th EXCEPT ![t].pc = "pf_read"]
    /\ UNCHANGED <<orders, trades, portfolios, BookVars, id_seq, last>>

\* _update_portfolio: find_one, and insert_one when there is none
CPfRead(t) ==
    /\ th[t].pc = "pf_read"
    /\ portfolios' = EnsurePortfolio(portfolios, th[t].user)
    /\ LET i == FindPortfolio(portfolios, th[t].user)
       IN  th' = [th EXCEPT ![t].pc = "pf_write",
                            ![t].pf = IF i = 0 THEN InitialPortfolio(th[t].user)
                                      ELSE portfolios[i]]
    /\ UNCHANGED <<orders, trades, positions, BookVars, id_seq, last>>

\* _update_portfolio: update_one; then place_order inserts the order
CPfWrite(t) ==
    /\ th[t].pc = "pf_write"
    /\ portfolios' = ApplyPortfolioWrite(portfolios, th[t].user,
                                         PortfolioWrite(th[t].pf, th[t].order))
    /\ Finish(t, th[t].order, NoError)
    /\ UNCHANGED <<trades, positions, BookVars, id_seq>>

NextConc ==
    \/ \E t \in Threads, u \in ConcUsers, req \in ConcRequests, cached \in CacheReads :
          CStart(t, u, req, cached)
    \/ \E t \in Threads : CRisk(t)
    \/ \E t \in Threads : CBook(t)
    \/ \E t \in Threads : CCreate(t, ConcDraw)
    \/ \E t \in Threads : CLookup(t)
    \/ \E t \in Threads : CMatchRead(t)
    \/ \E t \in Threads : CMatchWrite(t)
    \/ \E t \in Threads : CLimit(t)
    \/ \E t \in Threads : CFills(t)
    \/ \E t \in Threads : CPosRead(t)
    \/ \E t \in Threads : CPosWrite(t)
    \/ \E t \in Threads : CPfRead(t)
    \/ \E t \in Threads : CPfWrite(t)

SpecConc == InitConc /\ [][NextConc]_vars

-----------------------------------------------------------------------------
(* The order book specification: calls on one OrderBook object, as         *)
(* _execute_market_order, _execute_limit_order and update_book_price make  *)
(* them.                                                                   *)

\* number of calls on the book
MaxBookCalls == 3
\* the quantities and limit prices passed to the book
BookQuantities == {1, 40, 400, 560, 1280, 2000}
BookLimitPrices == {9800, 9900, 10000, 10100, 10200, 20000}

\* what the caller of the last call on the book passed and got
BookOutcome(op, side, quantity, price, fills) ==
    [op |-> op, side |-> side, quantity |-> quantity, price |-> price, fills |-> fills]

InitBook ==
    /\ orders = <<>>
    /\ trades = <<>>
    /\ positions = <<>>
    /\ portfolios = <<>>
    /\ \E draw \in BookDraws :
          book_heap = <<NewBook(DEFAULT_PRICE, draw.spread_bp, draw.bid_qty, draw.ask_qty)>>
    /\ order_books = [s \in Symbols |-> 1]
    /\ id_seq = 0
    /\ last = BookOutcome("init", "None", 0, NoPrice, <<>>)
    /\ th = [t \in Threads |-> IdleThread]

BookFrame == UNCHANGED <<orders, trades, positions, portfolios, order_books, th>>

\* match_market_buy(quantity) / match_market_sell(quantity)
MatchMarket(side, quantity) ==
    /\ id_seq < MaxBookCalls
    /\ id_seq' = id_seq + 1
    /\ LET r == IF side = "BUY" THEN match_market_buy(book_heap[1], quantity)
                                ELSE match_market_sell(book_heap[1], quantity)
       IN  /\ book_heap' = <<r.book>>
           /\ last' = BookOutcome("match_market", side, quantity, NoPrice, r.fills)
    /\ BookFrame

\* check_limit_buy(price, quantity) / check_limit_sell(price, quantity)
CheckLimit(side, price, quantity) ==
    /\ id_seq < MaxBookCalls
    /\ id_seq' = id_seq + 1
    /\ last' = BookOutcome("check_limit", side, quantity, price,
                           IF side = "BUY" THEN check_limit_buy(book_heap[1], price, quantity)
                           ELSE check_limit_sell(book_heap[1], price, quantity))
    /\ UNCHANGED book_heap
    /\ BookFrame

\* update_market_price(new_mid_price)
UpdateMarketPrice(new_mid_price) ==
    /\ id_seq < MaxBookCalls
    /\ id_seq' = id_seq + 1
    /\ book_heap' = <<update_market_price(book_heap[1], new_mid_price)>>
    /\ last' = BookOutcome("update_market_price", "None", 0, new_mid_price, <<>>)
    /\ BookFrame

NextBook ==
    \/ \E side \in {"BUY", "SELL"}, quantity \in BookQuantities : MatchMarket(side, quantity)
    \/ \E side \in {"BUY", "SELL"}, price \in BookLimitPrices, quantity \in BookQuantities :
          CheckLimit(side, price, quantity)
    \/ \E new_mid_price \in NewMids : UpdateMarketPrice(new_mid_price)

SpecBook == InitBook /\ [][NextBook]_vars

-----------------------------------------------------------------------------
(* The position specification: _update_position applied to the filled      *)
(* orders of the users, one after the other.                               *)

\* number of filled orders
MaxFills == 3
\* the filled quantities and the average fill prices of the orders
FillQuantities == {10, 20}
FillPrices == {10000, 12000}

\* the order as _execute_order hands it to _update_position
FilledOrder(id, u, sym, side, quantity, price) ==
    [NewOrder(id, u, [symbol |-> sym, order_type |-> "MARKET", side |-> side,
                      quantity |-> quantity, price |-> NoPrice])
        EXCEPT !.filled_quantity = quantity,
               !.avg_fill_price = RatInt(price),
               !.status = "FILLED"]

\* what _update_position was last called with
FillOutcome(op, order) ==
    [op |-> op, user |-> order.user_id, symbol |-> order.symbol, side |-> order.side,
     quantity |-> order.filled_quantity, price |-> order.avg_fill_price]

InitPos ==
    /\ orders = <<>>
    /\ trades = <<>>
    /\ positions = <<>>
    /\ portfolios = <<>>
    /\ order_books = [s \in Symbols |-> 0]
    /\ book_heap = <<>>
    /\ id_seq = 0
    /\ last = FillOutcome("init", NewOrder(0, "None", NoRequest))
    /\ th = [t \in Threads |-> IdleThread]

\* _update_position(order)
UpdatePosition(u, sym, side, quantity, price) ==
    /\ id_seq < MaxFills
    /\ id_seq' = id_seq + 1
    /\ LET order == FilledOrder(id_seq + 1, u, sym, side, quantity, price)
       IN  /\ positions' = update_position(positions, order)
           /\ last' = FillOutcome("update_position", order)
    /\ UNCHANGED <<orders, trades, portfolios, order_books, book_heap, th>>

NextPos ==
    \E u \in Users, sym \in Symbols, side \in {"BUY", "SELL"},
       quantity \in FillQuantities, price \in FillPrices :
        UpdatePosition(u, sym, side, quantity, price)

SpecPos == InitPos /\ [][NextPos]_vars

-----------------------------------------------------------------------------
(* The ledger specification: trades appended by _generate_trades, one fill *)
(* each, and the realized P&L computed from them on read.                  *)

\* number of trades in the ledger
MaxTrades == 4
LedgerUsers == {"u1"}

LedgerOutcome(op, u, value) == [op |-> op, user |-> u, value |-> value]

InitLedger ==
    /\ orders = <<>>
    /\ trades = <<>>
    /\ positions = <<>>
    /\ portfolios = <<>>
    /\ order_books = [s \in Symbols |-> 0]
    /\ book_heap = <<>>
    /\ id_seq = 0
    /\ last = LedgerOutcome("init", "None", 0)
    /\ th = [t \in Threads |-> IdleThread]

\* _generate_trades(order, fills) for an order filled at one price
GenerateTrade(u, sym, side, quantity, price) ==
    /\ id_seq < MaxTrades
    /\ id_seq' = id_seq + 1
    /\ trades' = trades \o generate_trades(FilledOrder(id_seq + 1, u, sym, side, quantity, price),
                                           <<(<<price, quantity>>)>>)
    /\ last' = LedgerOutcome("generate_trades", u, 0)
    /\ UNCHANGED <<orders, positions, portfolios, order_books, book_heap, th>>

\* _calculate_realized_pnl(user_id) as get_portfolio calls it
ReadRealizedPnl(u) ==
    /\ last' = LedgerOutcome("realized_pnl", u, calculate_realized_pnl(trades, u))
    /\ UNCHANGED <<orders, trades, positions, portfolios, order_books, book_heap, id_seq, th>>

NextLedger ==
    \/ \E u \in LedgerUsers, sym \in Symbols, side \in {"BUY", "SELL"},
          quantity \in FillQuantities, price \in FillPrices :
           GenerateTrade(u, sym, side, quantity, price)
    \/ \E u \in LedgerUsers : ReadRealizedPnl(u)

SpecLedger == InitLedger /\ [][NextLedger]_vars

-----------------------------------------------------------------------------
(* The margin specification: the place_order calls of one user, one at a   *)
(* time, with orders as large as the depth of the book.                    *)

\* the requests of the user: MARKET orders that carry a price and LIMIT
\* orders; the SELL quantities are small (a SELL of 40 takes a margin of
\* 774,000.00)
MarginRequests ==
    {r \in [symbol : Symbols, order_type : {"MARKET", "LIMIT"}, side : {"BUY", "SELL"},
            quantity : {40, 560, 1200, 2000}, price : {9900, 10000, 10100}] :
        /\ r.order_type = "LIMIT" => r.price \in LimitPrices
        /\ r.order_type = "MARKET" => r.price = 10000
        /\ r.side = "SELL" => r.quantity <= 560}

NextMargin ==
    \/ \E req \in MarginRequests, cached \in CacheReads, draw \in BookDraws :
          PlaceOrder("u1", req, cached, draw)
    \/ GetPortfolio("u1")

SpecMargin == Init /\ [][NextMargin]_vars

-----------------------------------------------------------------------------
(* The construction specification: OrderBook objects as __init__ builds    *)
(* them, for mid prices and random draws over their ranges.                *)

\* the mid prices of the books, in paise: multiples of 400, so that half of
\* the smallest spread is a whole number of paise
FreshMids == {400, 10000, 34000, 2000000}
\* the draws of _initialize_depth: the spread fraction at the ends of
\* uniform(0.005, 0.02) and inside, the quantities at the ends of
\* randint(50, 500) and inside
FreshSpreads == {50, 100, 150, 200}
FreshQuantities == {<<50, 50, 50, 50, 50>>, <<500, 500, 500, 500, 500>>,
                    <<400, 120, 50, 200, 500>>}

InitFresh ==
    /\ orders = <<>>
    /\ trades = <<>>
    /\ positions = <<>>
    /\ portfolios = <<>>
    /\ order_books = [s \in Symbols |-> 0]
    /\ book_heap = <<>>
    /\ id_seq = 0
    /\ last = BookOutcome("init", "None", 0, NoPrice, <<>>)
    /\ th = [t \in Threads |-> IdleThread]

\* OrderBook(symbol, mid_price): the object is built and its depth drawn
CreateBook(mid_price, spread_bp, bid_qty, ask_qty) ==
    /\ book_heap' = <<NewBook(mid_price, spread_bp, bid_qty, ask_qty)>>
    /\ last' = BookOutcome("create_book", "None", 0, mid_price, <<>>)
    /\ UNCHANGED <<orders, trades, positions, portfolios, order_books, id_seq, th>>

NextFresh ==
    \E mid_price \in FreshMids, spread_bp \in FreshSpreads,
       bid_qty \in FreshQuantities, ask_qty \in FreshQuantities :
        CreateBook(mid_price, spread_bp, bid_qty, ask_qty)

SpecFresh == InitFresh /\ [][NextFresh]_vars

-----------------------------------------------------------------------------
(* The position-limit specification: _check_position_limits on the orders  *)
(* of a user who holds positions in other symbols.                         *)

\* the symbols of the positions the users hold beside the traded symbol
SeedSymbols == <<"S01", "S02", "S03", "S04", "S05", "S06", "S07", "S08", "S09", "S10", "S11">>
\* how many of them a user holds
SeedCounts == {0, 8, 9, 10, 11}
\* the quantity of the position of the user in the traded symbol (0: none)
OwnQuantities == {-40, 0, 40}

\* a stored position document
SeedPosition(id, u, sym, quantity) ==
    [id |-> id, user_id |-> u, symbol |-> sym, product |-> "NIFTY", quantity |-> quantity,
     avg_entry_price |-> RatInt(DEFAULT_PRICE), current_price |-> RatInt(DEFAULT_PRICE),
     unrealized_pnl |-> 0]

\* the positions of a user: n in other symbols, long and short alternating,
\* and the one in the traded symbol
SeedPositions(base, u, n, own) ==
    [k \in 1..n |-> SeedPosition(base + k, u, SeedSymbols[k], IF k % 2 = 0 THEN 40 ELSE -40)]
    \o (IF own = 0 THEN <<>> ELSE <<SeedPosition(base, u, "NIFTY_CE", own)>>)

InitLimit ==
    /\ orders = <<>>
    /\ trades = <<>>
    /\ \E n1 \in SeedCounts, n2 \in {0, 11}, own \in OwnQuantities :
          positions = SeedPositions(200, "u2", n2, -own) \o SeedPositions(100, "u1", n1, own)
    /\ portfolios = <<>>
    /\ order_books = [s \in Symbols |-> 0]
    /\ book_heap = <<>>
    /\ id_seq = 0
    /\ last = NoOutcome
    /\ th = [t \in Threads |-> IdleThread]

\* _check_position_limits(user_id, order)
CheckPositionLimits(u, req) ==
    /\ last' = Outcome("check_position_limits", u, req, 1, NoPrice,
                       LET rc == check_position_limits(positions, u, NewOrder(1, u, req))
                       IN  IF rc = Passed THEN NoError ELSE rc)
    /\ UNCHANGED <<orders, trades, positions, portfolios, order_books, book_heap, id_seq, th>>

NextLimit ==
    \E req \in {r \in Requests : r.quantity <= 560} : CheckPositionLimits("u1", req)

SpecLimit == InitLimit /\ [][NextLimit]_vars

-----------------------------------------------------------------------------
(* The store-failure specification: place_order calls, one at a time, in    *)
(* which a call of the store made after the fills were obtained may raise.  *)

\* the steps of _execute_order after the fills in which the store is called
FailureStages == {"generate_trades", "update_position", "update_portfolio"}

\* place_order in which the store raises in the given stage, after `written`
\* trades were inserted when the stage is _generate_trades: the documents
\* written before stay, the except branch marks the order dict, which
\* _execute_order has already updated in place, REJECTED and inserts it
PlaceOrderStoreFailure(u, req, cached, draw, stage, written) ==
    /\ id_seq < MaxOrders
    /\ \A t \in Threads : th[t].pc = "idle"
    /\ LET id == id_seq + 1
           current_price == current_price_of(trades, req.symbol, cached)
           order == NewOrder(id, u, req)
           rc == pre_trade_risk_check(portfolios, positions, trades, u, order, current_price)
           heap1 == IF HasBook(req.symbol) THEN book_heap
                    ELSE Append(book_heap, NewBook(current_price, draw.spread_bp,
                                                   draw.bid_qty, draw.ask_qty))
           ref == IF HasBook(req.symbol) THEN order_books[req.symbol] ELSE Len(heap1)
           ex == ExecuteOnBook(order, heap1[ref])
           done == ApplyFills(order, ex.fills)
           raised == Raise("PyMongoError", "PyMongoError")
       IN  /\ rc = Passed
           /\ ex.fills # <<>>
           /\ written < Len(ex.fills)
           /\ id_seq' = id
           /\ order_books' = [order_books EXCEPT ![req.symbol] = ref]
           /\ book_heap' = [heap1 EXCEPT ![ref] = ex.book]
           /\ trades' = trades \o
                 (IF stage = "generate_trades"
                  THEN SubSeq(generate_trades(done, ex.fills), 1, written)
                  ELSE generate_trades(done, ex.fills))
           /\ positions' = IF stage = "update_portfolio"
                           THEN update_position(positions, done) ELSE positions
           /\ portfolios' = portfolios
           /\ orders' = Append(orders, Rejected(done, raised.reason))
           /\ last' = Outcome("place_order", u, req, id, current_price, raised)
    /\ UNCHANGED th

NextFailure ==
    \/ \E u \in Users, cached \in CacheReads, draw \in BookDraws :
         \E req \in RequestsOf(u) :
          PlaceOrder(u, req, cached, draw)
    \/ \E u \in Users : GetPortfolio(u)
    \/ \E u \in Users, cached \in CacheReads, draw \in BookDraws :
         \E req \in RequestsOf(u), stage \in FailureStages, written \in 0..1 :
          PlaceOrderStoreFailure(u, req, cached, draw, stage, written)

SpecFailure == Init /\ [][NextFailure]_vars

-----------------------------------------------------------------------------
(* Properties *)

\* the step is a completed place_order call (sequential specification)
PlaceStep == id_seq' = id_seq + 1
\* the order document the call built before the risk check
PlacedOrder == NewOrder(last'.order_id, last'.user, last'.req)
\* the document the call inserted
InsertedOrder == orders'[Len(orders')]
TradesOf(trs, id) == SelectSeq(trs, LAMBDA t : t.order_id = id)

\* C1: a place_order call whose required margin, calculate_margin(order,
\* reference price), exceeds the stored margin_available of the user raises
\* InsufficientFundsError, persists exactly one order document, with status
\* REJECTED, and creates no trade.
C1_InsufficientMarginRejected ==
    [][PlaceStep =>
        LET i == FindPortfolio(portfolios, last'.user)
        IN  (i # 0 /\ calculate_margin(PlacedOrder, last'.price) > portfolios[i].margin_available)
            => /\ last'.raised = "InsufficientFundsError"
               /\ Len(orders') = Len(orders) + 1
               /\ SubSeq(orders', 1, Len(orders)) = orders
               /\ InsertedOrder.order_id = last'.order_id
               /\ InsertedOrder.status = "REJECTED"
               /\ trades' = trades
               /\ TradesOf(trades', last'.order_id) = <<>>]_vars

\* an order was rejected for its margin by a user whose portfolio is stored
C1_Witness ==
    /\ last.op = "place_order"
    /\ last.raised = "InsufficientFundsError"
    /\ last.reason = "Insufficient margin"
    /\ FindPortfolio(portfolios, last.user) # 0

\* C2: when pre_trade_risk_check raises a risk violation, the trades, the
\* positions, the portfolios and every order book are left as they were; the
\* only change of the store is the insertion of the order with status REJECTED.
C2_RiskRejectionNotApplied ==
    [][(PlaceStep /\ last'.raised \in RiskViolations) =>
        /\ trades' = trades
        /\ positions' = positions
        /\ portfolios' = portfolios
        /\ order_books' = order_books
        /\ book_heap' = book_heap
        /\ orders' = Append(orders, Rejected(PlacedOrder, last'.reason))]_vars

\* an order was rejected by a check other than the first, with trades,
\* a position and a book present
C2_Witness ==
    /\ last.op = "place_order"
    /\ last.raised \in RiskViolations \ {"InsufficientFundsError"}
    /\ trades # <<>>
    /\ positions # <<>>
    /\ book_heap # <<>>

\* the order is within every risk limit, the order value being taken at the
\* reference price when the request carries no price
WithinRiskLimits(pfs, poss, trs, u, order, current_price) ==
    /\ check_margin(pfs, u, order, current_price) = Passed
    /\ check_position_limits(poss, u, order) = Passed
    /\ order.quantity * (IF order.price = NoPrice THEN current_price ELSE order.price)
          <= max_order_value
    /\ check_daily_loss(trs, poss, u) = Passed
    /\ check_concentration(pfs, poss, u, order, current_price) = Passed

\* C3: a MARKET order without a price, of a user with a portfolio and within
\* every risk limit, is executed through match_market and is never REJECTED:
\* it ends FILLED when the opposite depth covers the quantity and
\* PARTIALLY_FILLED when the opposite side is non-empty and smaller.
C3_MarketOrderExecuted ==
    [][(/\ PlaceStep
        /\ last'.req.order_type = "MARKET"
        /\ last'.req.price = NoPrice
        /\ WithinRiskLimits(portfolios, positions, trades, last'.user, PlacedOrder, last'.price))
       => /\ InsertedOrder.status # "REJECTED"
          /\ InsertedOrder.status \in {"FILLED", "PARTIALLY_FILLED", "PENDING"}]_vars

\* the call of thread t has passed the risk check and goes on to write the
\* portfolio: it holds fills
Committing(t) == th[t].pc \in {"pos_read", "pos_write", "pf_read", "pf_write"}

\* C4: the risk check and the portfolio commit of a place_order call are one
\* atomic unit per user: two concurrent calls of one user never both pass the
\* margin check against the same margin_available while the margins they
\* require exceed it together.
C4_NoMarginDoubleSpend ==
    \A a \in Threads, b \in Threads :
        (/\ a # b
         /\ th[a].user = th[b].user
         /\ Committing(a) /\ Committing(b)
         /\ th[a].avail_seen = th[b].avail_seen)
        => calculate_margin(th[a].order, th[a].price)
             + calculate_margin(th[b].order, th[b].price) <= th[a].avail_seen

\* the asks of the book of the concurrent calls when it is created
RestedAsks == NewBook(DEFAULT_PRICE, ConcDraw.spread_bp, ConcDraw.bid_qty, ConcDraw.ask_qty).asks
\* the quantity the BUY trades took at a price
BoughtAt(trs, p) ==
    SumSeq([i \in 1..Len(trs) |->
               IF trs[i].side = "BUY" /\ trs[i].price = p THEN trs[i].quantity ELSE 0])
AskDepth(levels) == SumSeq([i \in 1..Len(levels) |-> levels[i].qty])

\* C5: the mutations of one book are serialized: on the one book of the
\* symbol, the fills of the market orders at a price never exceed the quantity
\* that rested at that price, and once every call has returned the quantity
\* bought and the quantity left on the asks add up to the quantity that rested.
C5_BookMutationsSerialized ==
    Len(book_heap) = 1 =>
        /\ \A i \in 1..Len(RestedAsks) :
              BoughtAt(trades, RestedAsks[i].price) <= RestedAsks[i].qty
        /\ (\A t \in Threads : th[t].pc = "idle") =>
              SumSeq([i \in 1..Len(trades) |->
                         IF trades[i].side = "BUY" THEN trades[i].quantity ELSE 0])
                + AskDepth(book_heap[1].asks) = AskDepth(RestedAsks)

\* the statuses the specification calls terminal
Terminal == {"REJECTED", "FILLED", "PARTIALLY_FILLED", "CANCELLED"}

\* C6: an order whose stored status is REJECTED, FILLED, PARTIALLY_FILLED or
\* CANCELLED is never modified again by a place_order or a cancel_order call:
\* its status and its fill fields stay as they are.
C6_TerminalStatusFinal ==
    [][\A i \in 1..Len(orders) :
          orders[i].status \in Terminal
          => /\ Len(orders') >= i
             /\ orders'[i] = orders[i]]_vars

\* cancel_order was called by its owner on an order in a terminal status,
\* after which the order is still there
C6_Witness ==
    /\ last.op = "cancel_order"
    /\ last.raised = "ValueError"
    /\ \E i \in 1..Len(orders) :
          /\ orders[i].order_id = last.order_id
          /\ orders[i].user_id = last.user
          /\ orders[i].status \in {"FILLED", "PARTIALLY_FILLED", "CANCELLED"}

\* C7: cancel_order(user, order_id) raises and changes no stored state when no
\* order with that id is stored for that user, the orders of other users
\* included, or when the status of that order is not PENDING; otherwise it
\* returns and the only change is that the status of that order is CANCELLED.
C7_CancelOrder ==
    [][last'.op = "cancel_order" =>
        LET mine == {i \in 1..Len(orders) : /\ orders[i].order_id = last'.order_id
                                            /\ orders[i].user_id = last'.user}
        IN  /\ UNCHANGED <<trades, positions, portfolios, order_books, book_heap>>
            /\ IF mine = {} \/ \E i \in mine : orders[i].status # "PENDING"
               THEN /\ last'.raised = "ValueError"
                    /\ orders' = orders
               ELSE /\ last'.raised = "none"
                    /\ \E i \in mine : orders' = [orders EXCEPT ![i].status = "CANCELLED"]]_vars

\* cancel_order failed on the PENDING order of another user
C7_Witness ==
    /\ last.op = "cancel_order"
    /\ last.raised = "ValueError"
    /\ \E i \in 1..Len(orders) :
          /\ orders[i].order_id = last.order_id
          /\ orders[i].user_id # last.user
          /\ orders[i].status = "PENDING"

\* C8: a user without a stored portfolio places a first order: the order is
\* evaluated against a portfolio created with cash 1,000,000, margin_used 0
\* and margin_available 1,000,000, and is not rejected for the lack of a
\* portfolio.
C8_FirstOrderOnFreshPortfolio ==
    [][(PlaceStep /\ FindPortfolio(portfolios, last'.user) = 0) =>
        LET rc == pre_trade_risk_check(EnsurePortfolio(portfolios, last'.user), positions,
                                       trades, last'.user, PlacedOrder, last'.price)
        IN  /\ last'.reason # "Portfolio not found"
            /\ rc = Passed => last'.raised = "none"
            /\ rc # Passed => last'.raised = rc.kind]_vars

\* C9: every stored order has 0 <= filled_quantity <= quantity; its
\* avg_fill_price is None exactly when filled_quantity = 0, and otherwise it is
\* the mean of the prices of the fills of the order weighted by their
\* quantities.
C9_FillFields ==
    \A i \in 1..Len(orders) :
        LET o == orders[i]
            fills == TradesOf(trades, o.order_id)
            qty == SumSeq([k \in 1..Len(fills) |-> fills[k].quantity])
            value == SumSeq([k \in 1..Len(fills) |-> fills[k].price * fills[k].quantity])
        IN  /\ 0 <= o.filled_quantity
            /\ o.filled_quantity <= o.quantity
            /\ (o.avg_fill_price = NoneRat) <=> (o.filled_quantity = 0)
            /\ o.filled_quantity = qty
            /\ o.filled_quantity > 0 =>
                  /\ o.avg_fill_price.d > 0
                  /\ o.avg_fill_price.n * qty = value * o.avg_fill_price.d

\* an order was filled at two prices
C9_Witness ==
    \E i \in 1..Len(orders) :
        \E a, b \in 1..Len(trades) :
            /\ trades[a].order_id = orders[i].order_id
            /\ trades[b].order_id = orders[i].order_id
            /\ trades[a].price # trades[b].price
            /\ orders[i].avg_fill_price.d > 1

Resting(heap, side) == IF side = "BUY" THEN heap[1].asks ELSE heap[1].bids
FillsQty(fills) == SumSeq([i \in 1..Len(fills) |-> fills[i][2]])

\* C11: match_market(side, q) is best-effort: the quantities of the fills it
\* returns sum to min(q, quantity resting on the opposite side before the
\* call), every fill quantity is positive, and the quantity resting on the
\* opposite side decreases by exactly that sum.
C11_MatchMarketBestEffort ==
    [][(id_seq' = id_seq + 1 /\ last'.op = "match_market") =>
        LET before == AskDepth(Resting(book_heap, last'.side))
            after == AskDepth(Resting(book_heap', last'.side))
            got == FillsQty(last'.fills)
        IN  /\ got = Min(last'.quantity, before)
            /\ \A i \in 1..Len(last'.fills) : last'.fills[i][2] > 0
            /\ after = before - got]_vars

\* a match took a whole level and a part of the next, and one met less than
\* it asked for
C11_Witness ==
    /\ last.op = "match_market"
    /\ Len(last.fills) >= 2
    /\ FillsQty(last.fills) < last.quantity
    /\ Resting(book_heap, last.side) = <<>>

\* the limit of the request does not cross the best opposing price of the
\* book, or the opposite side is empty
NotCrossing(book, req) ==
    IF req.side = "BUY"
    THEN book.asks = <<>> \/ req.price < book.asks[1].price
    ELSE book.bids = <<>> \/ req.price > book.bids[1].price

\* C12: a LIMIT order that passes the risk check and whose limit does not
\* cross the best opposing price of the book it meets, or that meets an empty
\* opposite side, raises nothing and is stored PENDING with filled_quantity 0;
\* no trade, position or portfolio is written and no level of the book is
\* changed (a book created for the order is left as it was initialised).
C12_LimitNotCrossing ==
    [][(/\ PlaceStep
        /\ last'.req.order_type = "LIMIT"
        /\ pre_trade_risk_check(portfolios, positions, trades, last'.user,
                                PlacedOrder, last'.price) = Passed)
       => LET sym == last'.req.symbol
              met == IF HasBook(sym) THEN Book(sym) ELSE book_heap'[order_books'[sym]]
          IN  NotCrossing(met, last'.req)
              => /\ last'.raised = "none"
                 /\ orders' = Append(orders, PlacedOrder)
                 /\ InsertedOrder.status = "PENDING"
                 /\ InsertedOrder.filled_quantity = 0
                 /\ trades' = trades
                 /\ positions' = positions
                 /\ portfolios' = portfolios
                 /\ IF HasBook(sym)
                    THEN book_heap' = book_heap /\ order_books' = order_books
                    ELSE /\ book_heap' = Append(book_heap, met)
                         /\ \E d \in BookDraws :
                               met = NewBook(last'.price, d.spread_bp, d.bid_qty, d.ask_qty)]_vars

\* a LIMIT BUY below the best ask was stored PENDING on a book that had
\* traded before
C12_Witness ==
    /\ last.op = "place_order"
    /\ last.raised = "none"
    /\ last.req.order_type = "LIMIT"
    /\ last.req.side = "BUY"
    /\ trades # <<>>
    /\ HasBook(last.req.symbol)
    /\ Book(last.req.symbol).asks # <<>>
    /\ last.req.price < Book(last.req.symbol).asks[1].price
    /\ orders[Len(orders)].status = "PENDING"

\* C13: an order stored as PENDING has filled_quantity 0 and is never filled
\* or expired by a later order, price update or read: a step leaves it as it
\* is, or it is a successful cancel_order of its owner for that order, which
\* changes its status to CANCELLED and nothing else.
C13_PendingUntilCancelled ==
    [][\A i \in 1..Len(orders) :
          orders[i].status = "PENDING"
          => /\ orders[i].filled_quantity = 0
             /\ Len(orders') >= i
             /\ \/ orders'[i] = orders[i]
                \/ /\ orders'[i] = [orders[i] EXCEPT !.status = "CANCELLED"]
                   /\ last'.op = "cancel_order"
                   /\ last'.raised = "none"
                   /\ last'.user = orders[i].user_id
                   /\ last'.order_id = orders[i].order_id]_vars

\* a LIMIT SELL is still PENDING after a price update put the best bid above
\* its limit and another order was placed
C13_Witness ==
    /\ Len(orders) = 2
    /\ orders[1].status = "PENDING"
    /\ orders[1].side = "SELL"
    /\ HasBook(orders[1].symbol)
    /\ Book(orders[1].symbol).bids # <<>>
    /\ Book(orders[1].symbol).bids[1].price > orders[1].price
    /\ last.op = "place_order"

\* the stored position of the pair the last fill was for, before and after
\* the step
PosBefore == FindPosition(positions, last'.user, last'.symbol)
PosAfter == FindPosition(positions', last'.user, last'.symbol)
FillStep == id_seq' = id_seq + 1 /\ last'.op = "update_position"

\* C14: a fill that adds to the exposure of a position in its direction (BUY
\* on a long position, SELL on a short position) makes the entry price the
\* average of the old entry price and the average fill price weighted by the
\* quantities, and the magnitude grows by the filled quantity.
C14_SameDirectionAverages ==
    [][(/\ FillStep
        /\ PosBefore # 0
        /\ \/ positions[PosBefore].quantity > 0 /\ last'.side = "BUY"
           \/ positions[PosBefore].quantity < 0 /\ last'.side = "SELL")
       => LET old == positions[PosBefore]
              mag == Abs(old.quantity)
              fq == last'.quantity
          IN  /\ PosAfter # 0
              /\ Abs(positions'[PosAfter].quantity) = mag + fq
              /\ positions'[PosAfter].quantity * old.quantity > 0
              /\ positions'[PosAfter].avg_entry_price =
                    RatDivInt(RatAdd(RatScale(mag, old.avg_entry_price),
                                     RatScale(fq, last'.price)), mag + fq)]_vars

\* C15: a fill that reduces the exposure of a position without closing it
\* (SELL on a long position, BUY on a short position, filled quantity below
\* the magnitude) leaves the entry price as it is and lowers the magnitude by
\* the filled quantity.
C15_ReducingKeepsEntryPrice ==
    [][(/\ FillStep
        /\ PosBefore # 0
        /\ last'.quantity < Abs(positions[PosBefore].quantity)
        /\ \/ positions[PosBefore].quantity > 0 /\ last'.side = "SELL"
           \/ positions[PosBefore].quantity < 0 /\ last'.side = "BUY")
       => LET old == positions[PosBefore]
          IN  /\ PosAfter # 0
              /\ Abs(positions'[PosAfter].quantity) = Abs(old.quantity) - last'.quantity
              /\ positions'[PosAfter].quantity * old.quantity > 0
              /\ positions'[PosAfter].avg_entry_price = old.avg_entry_price]_vars

\* C16: a position is created by the first fill of a (user, symbol) pair and
\* deleted when a fill brings its quantity to zero: in every reachable state
\* at most one position is stored for a (user, symbol) pair and no stored
\* position has quantity 0.
C16_OnePositionPerPair ==
    /\ \A i, j \in 1..Len(positions) :
          (positions[i].user_id = positions[j].user_id
           /\ positions[i].symbol = positions[j].symbol) => i = j
    /\ \A i \in 1..Len(positions) : positions[i].quantity # 0

RECURSIVE Fifo(_, _, _, _, _, _)
\* the FIFO matches of the sells against the buys: the j-th sell, of which
\* srem is left, takes from the oldest buy with something left, the i-th, of
\* which brem is left
Fifo(buys, sells, i, j, brem, srem) ==
    IF i > Len(buys) \/ j > Len(sells) THEN <<>>
    ELSE LET m == Min(brem, srem)
             i1 == IF brem = m THEN i + 1 ELSE i
             j1 == IF srem = m THEN j + 1 ELSE j
         IN  <<[b |-> i, s |-> j, q |-> m]>> \o
             Fifo(buys, sells, i1, j1,
                  IF i1 = i THEN brem - m ELSE IF i1 <= Len(buys) THEN buys[i1].quantity ELSE 0,
                  IF j1 = j THEN srem - m ELSE IF j1 <= Len(sells) THEN sells[j1].quantity ELSE 0)

FifoOf(buys, sells) ==
    IF buys = <<>> \/ sells = <<>> THEN <<>>
    ELSE Fifo(buys, sells, 1, 1, buys[1].quantity, sells[1].quantity)

\* (sell unit price - buy unit price) * matched quantity over the matches
FifoGross(buys, sells, ms) ==
    SumSeq([k \in 1..Len(ms) |-> (sells[ms[k].s].price - buys[ms[k].b].price) * ms[k].q])
\* the quantity of a trade the matches cover
MatchedOfBuy(ms, i) == SumSeq([k \in 1..Len(ms) |-> IF ms[k].b = i THEN ms[k].q ELSE 0])
MatchedOfSell(ms, j) == SumSeq([k \in 1..Len(ms) |-> IF ms[k].s = j THEN ms[k].q ELSE 0])
\* the commissions of the trades of which some quantity is matched
\* (Touched) and of those of which the whole quantity is matched (Consumed)
CommissionsTouched(ts, ms, OfTrade(_, _)) ==
    SumSeq([i \in 1..Len(ts) |-> IF OfTrade(ms, i) > 0 THEN ts[i].commission ELSE 0])
CommissionsConsumed(ts, ms, OfTrade(_, _)) ==
    SumSeq([i \in 1..Len(ts) |-> IF OfTrade(ms, i) = ts[i].quantity THEN ts[i].commission ELSE 0])

\* C17: the realized P&L computed on read is, per symbol, the sum over the
\* FIFO matches of (sell price - buy price) * matched quantity less the
\* commissions of both sides attributable to the matched quantity, every
\* commission being deducted at most once in total: it lies between the gross
\* sum less the commissions of all matched trades and the gross sum less the
\* commissions of the wholly matched trades.
C17_RealizedPnlFifo ==
    last.op = "realized_pnl" =>
        LET Of(sym) ==
                LET buys == TradesOn(trades, last.user, sym, "BUY")
                    sells == TradesOn(trades, last.user, sym, "SELL")
                    ms == FifoOf(buys, sells)
                    gross == FifoGross(buys, sells, ms)
                IN  [lo |-> gross - CommissionsTouched(buys, ms, MatchedOfBuy)
                                  - CommissionsTouched(sells, ms, MatchedOfSell),
                     hi |-> gross - CommissionsConsumed(buys, ms, MatchedOfBuy)
                                  - CommissionsConsumed(sells, ms, MatchedOfSell)]
        IN  \A sym \in Symbols :
                (\A t \in 1..Len(trades) : trades[t].symbol = sym)
                => /\ Of(sym).lo <= last.value
                   /\ last.value <= Of(sym).hi

\* the results of the five checks on the order of the last place_order call,
\* each taken alone, in the order margin, position count, order value, daily
\* loss, concentration; the store is read before the call (Checks) or
\* after it (ChecksAfter: a rejection leaves what the checks read as it was)
ChecksOn(pfs, poss, trs, out) ==
    LET order == NewOrder(out.order_id, out.user, out.req)
    IN  <<check_margin(pfs, out.user, order, out.price),
          check_position_limits(poss, out.user, order),
          check_order_value(order, out.price),
          check_daily_loss(trs, poss, out.user),
          check_concentration(pfs, poss, out.user, order, out.price)>>
FailingChecks(cs) == {k \in 1..Len(cs) : cs[k] # Passed}

\* C18: pre_trade_risk_check runs the margin, position-count, order-value,
\* daily-loss and concentration checks in that order and reports the first
\* one that fails: an order failing several checks is rejected with the kind
\* and the message of the earliest of them, and an order is rejected by the
\* risk check only if one of them fails.
C18_FirstFailingCheck ==
    [][PlaceStep =>
        LET cs == ChecksOn(portfolios, positions, trades, last')
            F == FailingChecks(cs)
        IN  /\ F # {} =>
                 \E k \in F : /\ \A j \in F : k <= j
                              /\ last'.raised = cs[k].kind
                              /\ last'.reason = cs[k].reason
                              /\ InsertedOrder.status = "REJECTED"
                              /\ InsertedOrder.rejection_reason = cs[k].reason
            /\ F = {} => last'.raised = "none"]_vars

\* an order was rejected for its margin while its value was over the limit
\* as well
C18_Witness ==
    /\ last.op = "place_order"
    /\ last.raised = "InsufficientFundsError"
    /\ last.reason = "Insufficient margin"
    /\ {1, 3} \subseteq FailingChecks(ChecksOn(portfolios, positions, trades, last))

\* C19: for an order that passes the margin, position-count, order-value and
\* daily-loss checks, the concentration violation is raised exactly when
\* (sum over the positions of the user in the product of the order of
\* |quantity * current price| + order quantity * reference price) divided by
\* (cash_balance + margin_used) exceeds 0.30, whatever margin is available.
C19_ConcentrationLimit ==
    [][(PlaceStep /\ FailingChecks(ChecksOn(portfolios, positions, trades, last')) \subseteq {5})
       => LET pf == portfolios[FindPortfolio(portfolios, last'.user)]
              held == RatSum([i \in 1..Len(positions) |->
                                IF /\ positions[i].user_id = last'.user
                                   /\ positions[i].product = PlacedOrder.product
                                THEN RatAbs(RatScale(positions[i].quantity,
                                                     positions[i].current_price))
                                ELSE RatInt(0)])
              exposure == RatAdd(held, RatInt(last'.req.quantity * last'.price))
              total == pf.cash_balance + pf.margin_used
          IN  /\ total > 0
              /\ (last'.raised = "ConcentrationLimitError")
                    <=> (10 * exposure.n > 3 * total * exposure.d)]_vars

\* an order was rejected for concentration alone, by a user who holds a
\* position and has the margin for it
C19_Witness ==
    /\ last.op = "place_order"
    /\ last.raised = "ConcentrationLimitError"
    /\ \E i \in 1..Len(positions) : positions[i].user_id = last.user
    /\ FailingChecks(ChecksOn(portfolios, positions, trades, last)) = {5}
    /\ portfolios[FindPortfolio(portfolios, last.user)].margin_available
          >= calculate_margin(NewOrder(last.order_id, last.user, last.req), last.price)

C21_BookCreatedOnce ==
    [][/\ \A sym \in Symbols : HasBook(sym) => order_books'[sym] = order_books[sym]
       /\ Len(book_heap') # Len(book_heap) =>
             /\ Len(book_heap') = Len(book_heap) + 1
             /\ \E sym \in Symbols : ~HasBook(sym) /\ order_books'[sym] = Len(book_heap')]_vars

\* the trades the step appended
NewTrades == SubSeq(trades', Len(trades) + 1, Len(trades'))
\* the trades are the fills, one trade per fill in their order, with the
\* price and the quantity of the fill
TradesAreFills(trs, order, fills) ==
    /\ Len(trs) = Len(fills)
    /\ \A k \in 1..Len(fills) :
          /\ trs[k].order_id = order.order_id
          /\ trs[k].user_id = order.user_id
          /\ trs[k].symbol = order.symbol
          /\ trs[k].side = order.side
          /\ trs[k].price = fills[k][1]
          /\ trs[k].quantity = fills[k][2]

\* C22: a place_order call appends exactly one trade per fill the order book
\* returned, with the price and the quantity of that fill, so that the
\* quantities of the trades of an order sum to its filled_quantity; and the
\* trade ledger is append-only: no step changes or removes a stored trade.
C22_OneTradePerFill ==
    [][/\ Len(trades') >= Len(trades)
       /\ SubSeq(trades', 1, Len(trades)) = trades
       /\ (PlaceStep /\ last'.raised # "none") => trades' = trades
       /\ (PlaceStep /\ last'.raised = "none") =>
             LET sym == last'.req.symbol
                 FillsOn(book) == ExecuteOnBook(PlacedOrder, book).fills
             IN  /\ IF HasBook(sym)
                    THEN TradesAreFills(NewTrades, PlacedOrder, FillsOn(Book(sym)))
                    ELSE \E d \in BookDraws :
                            /\ book_heap' = Append(book_heap,
                                  ExecuteOnBook(PlacedOrder,
                                      NewBook(last'.price, d.spread_bp, d.bid_qty, d.ask_qty)).book)
                            /\ TradesAreFills(NewTrades, PlacedOrder,
                                  FillsOn(NewBook(last'.price, d.spread_bp, d.bid_qty, d.ask_qty)))
                 /\ TradesOf(trades', last'.order_id) = NewTrades
                 /\ SumSeq([k \in 1..Len(NewTrades) |-> NewTrades[k].quantity])
                       = InsertedOrder.filled_quantity]_vars

\* an order was filled at two prices on a book that had traded before, and
\* the trades of the earlier order are still there after a read of the
\* portfolio
C22_Witness ==
    /\ last.op = "get_portfolio"
    /\ Len(orders) = 2
    /\ TradesOf(trades, 1) # <<>>
    /\ Len(TradesOf(trades, 2)) >= 2
    /\ TradesOf(trades, 2)[1].price # TradesOf(trades, 2)[2].price

\* C23: in every reachable state every stored portfolio has
\* margin_available = cash_balance - margin_used, from its creation with the
\* starting balance through every fill.
C23_MarginAvailableDerived ==
    \A i \in 1..Len(portfolios) :
        portfolios[i].margin_available
            = portfolios[i].cash_balance - portfolios[i].margin_used

\* the portfolio of a user went through a BUY fill and a SELL fill
C23_Witness ==
    \E i \in 1..Len(portfolios) :
        /\ portfolios[i].margin_used > 0
        /\ portfolios[i].cash_balance # INITIAL_CASH
        /\ \E a, b \in 1..Len(trades) :
              /\ trades[a].user_id = portfolios[i].user_id
              /\ trades[b].user_id = portfolios[i].user_id
              /\ trades[a].side = "BUY"
              /\ trades[b].side = "SELL"

\* the documents of a collection that belong to a user
OfUser(docs, u) == SelectSeq(docs, LAMBDA x : x.user_id = u)

\* C24: a place_order or a cancel_order call of a user, whatever its outcome,
\* leaves the portfolio, the positions, the orders and the trades of every
\* other user as they were.
C24_UsersIndependent ==
    [][(PlaceStep \/ last'.op = "cancel_order") =>
        \A b \in Users \ {last'.user} :
            /\ OfUser(portfolios', b) = OfUser(portfolios, b)
            /\ OfUser(positions', b) = OfUser(positions, b)
            /\ OfUser(orders', b) = OfUser(orders, b)
            /\ OfUser(trades', b) = OfUser(trades, b)]_vars

\* an order of a user was filled on the book another user had traded on;
\* the other user holds a portfolio, a position, an order and a trade
C24_Witness ==
    /\ last.op = "place_order"
    /\ last.raised = "none"
    /\ OfUser(trades, last.user) # <<>>
    /\ \E b \in Users \ {last.user} :
          /\ OfUser(portfolios, b) # <<>>
          /\ OfUser(positions, b) # <<>>
          /\ OfUser(orders, b) # <<>>
          /\ OfUser(trades, b) # <<>>

\* C25: a freshly initialized order book with a positive mid price has
\* exactly 5 bid levels and 5 ask levels, each with a quantity > 0, and
\* best bid < mid < best ask with a positive spread, for every spread fraction
\* from 0.5% to 2% of the mid price.
C25_FreshBookDepth ==
    last.op = "create_book" =>
        LET book == book_heap[1]
        IN  /\ book.mid_price = last.price
            /\ Len(book.bids) = 5
            /\ Len(book.asks) = 5
            /\ \A i \in 1..Len(book.bids) : book.bids[i].qty > 0
            /\ \A i \in 1..Len(book.asks) : book.asks[i].qty > 0
            /\ \A i \in 2..Len(book.bids) : book.bids[i].price < book.bids[1].price
            /\ \A i \in 2..Len(book.asks) : book.asks[i].price > book.asks[1].price
            /\ book.bids[1].price < book.mid_price
            /\ book.mid_price < book.asks[1].price
            /\ book.asks[1].price - book.bids[1].price > 0

\* a book was built at the smallest mid price with the smallest spread
\* fraction, 0.5%, and the smallest quantities
C25_Witness ==
    /\ last.op = "create_book"
    /\ \A m \in FreshMids : last.price <= m
    /\ 1000 * (book_heap[1].asks[1].price - book_heap[1].bids[1].price)
          = 5 * book_heap[1].mid_price
    /\ book_heap[1].bids[1].qty = 50

\* C26: the fills of a LIMIT order consume the liquidity of the book as a
\* market match does: after a LIMIT order was filled on the book of its
\* symbol, the opposite side is what a match of the filled quantity leaves
\* of it (every fully filled level removed, the partially filled level
\* reduced), so that its depth is lower by the filled quantity.
C26_LimitFillsConsumeBook ==
    [][(/\ PlaceStep
        /\ last'.raised = "none"
        /\ last'.req.order_type = "LIMIT"
        /\ HasBook(last'.req.symbol))
       => LET sym == last'.req.symbol
              before == OppositeSide(Book(sym), last'.req.side)
              after == OppositeSide(book_heap'[order_books'[sym]], last'.req.side)
              got == InsertedOrder.filled_quantity
          IN  /\ after = MatchLoop(before, got, <<>>).levels
              /\ AskDepth(after) = AskDepth(before) - got]_vars

\* C27: the daily-loss check counts the profit or loss of the positions
\* closed today plus the unrealized P&L of the open positions: a user whose
\* trades are all BUY fills, none of which closed anything, and whose
\* positions carry an unrealized P&L of zero, is not rejected by the
\* daily-loss check, however large the purchases.
C27_DailyLossOnClosedPositions ==
    [][(/\ PlaceStep
        /\ \A i \in 1..Len(trades) :
              trades[i].user_id = last'.user => trades[i].side = "BUY"
        /\ \A i \in 1..Len(positions) :
              positions[i].user_id = last'.user
              => positions[i].unrealized_pnl = 0 /\ positions[i].quantity > 0)
       => last'.raised # "DailyLossLimitError"]_vars

\* C28: when the orders of a user are placed one at a time, the stored
\* margin_available is >= 0 after the cash and margin changes of every
\* accepted order are applied.
C28_MarginAvailableNonNegative ==
    \A i \in 1..Len(portfolios) : portfolios[i].margin_available >= 0

\* the side of the one book of SpecBook a call of this side leaves alone
SameSide(heap, side) == IF side = "BUY" THEN heap[1].bids ELSE heap[1].asks
\* price p is at least as good as price q for an order of this side
AtLeastAsGood(side, p, q) == IF side = "BUY" THEN p <= q ELSE p >= q

\* C29: match_market consumes the levels in price priority: the k-th fill is
\* taken from the k-th best level of the opposite side, whose levels stand
\* best price first, so that the fill prices are non-decreasing for a BUY and
\* non-increasing for a SELL; every level but the last one touched is taken
\* whole and removed; the last one is removed when taken whole and otherwise
\* keeps its price and its arrival time with its quantity reduced by the
\* fill; last_trade_price becomes the price of the final fill and is
\* unchanged without a fill; the same side of the book is unchanged.
C29_MatchMarketPricePriority ==
    [][(id_seq' = id_seq + 1 /\ last'.op = "match_market") =>
        LET side == last'.side
            before == Resting(book_heap, side)
            after == Resting(book_heap', side)
            fills == last'.fills
            n == Len(fills)
            rest == SubSeq(before, n + 1, Len(before))
        IN  /\ n <= Len(before)
            /\ \A k \in 1..(Len(before) - 1) :
                  AtLeastAsGood(side, before[k].price, before[k + 1].price)
            /\ \A k \in 1..n : fills[k][1] = before[k].price
            /\ \A k \in 1..(n - 1) :
                  /\ fills[k][2] = before[k].qty
                  /\ AtLeastAsGood(side, fills[k][1], fills[k + 1][1])
            /\ n > 0 =>
                  /\ fills[n][2] <= before[n].qty
                  /\ after = IF fills[n][2] = before[n].qty THEN rest
                             ELSE <<[before[n] EXCEPT !.qty = before[n].qty - fills[n][2]]>>
                                  \o rest
                  /\ book_heap'[1].last_trade_price = fills[n][1]
            /\ n = 0 =>
                  /\ after = before
                  /\ book_heap'[1].last_trade_price = book_heap[1].last_trade_price
            /\ SameSide(book_heap', side) = SameSide(book_heap, side)
            /\ book_heap'[1].mid_price = book_heap[1].mid_price]_vars

\* a match took levels whole and a part of the next one, which is now the
\* best level of its side, after the prices of the book had been moved
C29_Witness ==
    /\ last.op = "match_market"
    /\ Len(last.fills) >= 2
    /\ last.fills[1][1] # last.fills[2][1]
    /\ Resting(book_heap, last.side) # <<>>
    /\ Resting(book_heap, last.side)[1].price = last.fills[Len(last.fills)][1]
    /\ book_heap[1].last_trade_price = last.fills[Len(last.fills)][1]
    /\ book_heap[1].mid_price # DEFAULT_PRICE

\* C30: every fill returned by check_limit(side, limit, q) has a price at or
\* better than the limit (<= limit for a BUY, >= limit for a SELL), the fills
\* are listed best price first, and their quantities sum to min(q, the
\* quantity resting on the opposite side at prices at or better than the
\* limit).
C30_CheckLimitFills ==
    [][(id_seq' = id_seq + 1 /\ last'.op = "check_limit") =>
        LET side == last'.side
            limit == last'.price
            fills == last'.fills
            eligible == SelectSeq(Resting(book_heap, side),
                                  LAMBDA lv : AtLeastAsGood(side, lv.price, limit))
        IN  /\ \A k \in 1..Len(fills) : AtLeastAsGood(side, fills[k][1], limit)
            /\ \A k \in 1..(Len(fills) - 1) : AtLeastAsGood(side, fills[k][1], fills[k + 1][1])
            /\ FillsQty(fills) = Min(last'.quantity, AskDepth(eligible))]_vars

\* a limit check filled what rests within the limit, over several levels and
\* less than the quantity asked for, with levels left beyond the limit
C30_Witness ==
    /\ last.op = "check_limit"
    /\ Len(last.fills) >= 2
    /\ FillsQty(last.fills) < last.quantity
    /\ Len(Resting(book_heap, last.side)) > Len(last.fills)
    /\ ~AtLeastAsGood(last.side,
                      Resting(book_heap, last.side)[Len(last.fills) + 1].price, last.price)

\* C31: the position-count check rejects a SELL order when the user holds no
\* long position in the symbol of the order and holds at least
\* max_open_positions positions; it rejects no SELL that offsets a long
\* position in the symbol and no BUY, whatever the number of positions.
C31_PositionCountCheck ==
    last.op = "check_position_limits" =>
        LET mine == OfUser(positions, last.user)
            long == \E i \in 1..Len(mine) :
                        mine[i].symbol = last.req.symbol /\ mine[i].quantity > 0
        IN  (last.raised = "PositionLimitError")
                <=> (last.req.side = "SELL" /\ ~long /\ Len(mine) >= 10)

\* a SELL was rejected for a user who holds exactly max_open_positions
\* positions, one of them a short position in the symbol of the order, while
\* another user holds more positions
C31_Witness ==
    /\ last.op = "check_position_limits"
    /\ last.raised = "PositionLimitError"
    /\ Len(OfUser(positions, last.user)) = 10
    /\ Len(positions) > 20
    /\ \E i \in 1..Len(positions) :
          /\ positions[i].user_id = last.user
          /\ positions[i].symbol = last.req.symbol
          /\ positions[i].quantity < 0

\* the levels stand in strict price order, best price first
StrictlyOrdered(levels, desc) ==
    \A k \in 1..(Len(levels) - 1) :
        IF desc THEN levels[k].price > levels[k + 1].price
                ELSE levels[k].price < levels[k + 1].price
\* a side after the update: the same levels with every price multiplied by
\* new_mid / old_mid
Rescaled(before, after, old_mid, new_mid) ==
    /\ Len(after) = Len(before)
    /\ \A i \in 1..Len(before) :
          /\ after[i].price * old_mid = before[i].price * new_mid
          /\ after[i].qty = before[i].qty
          /\ after[i].time = before[i].time

\* C32: update_market_price(new_mid) multiplies every bid and ask price by
\* new_mid / old_mid and sets mid_price to new_mid; the number of levels,
\* the quantity and the arrival time of every level and last_trade_price are
\* unchanged, and for new_mid > 0 the order of the levels and best bid <
\* best ask are preserved.
C32_UpdateMarketPrice ==
    [][(id_seq' = id_seq + 1 /\ last'.op = "update_market_price") =>
        LET old == book_heap[1]
            new == book_heap'[1]
        IN  /\ new.mid_price = last'.price
            /\ Rescaled(old.bids, new.bids, old.mid_price, new.mid_price)
            /\ Rescaled(old.asks, new.asks, old.mid_price, new.mid_price)
            /\ new.last_trade_price = old.last_trade_price
            /\ last'.price > 0 =>
                  /\ StrictlyOrdered(old.bids, TRUE) => StrictlyOrdered(new.bids, TRUE)
                  /\ StrictlyOrdered(old.asks, FALSE) => StrictlyOrdered(new.asks, FALSE)
                  /\ (old.bids # <<>> /\ old.asks # <<>>
                      /\ old.bids[1].price < old.asks[1].price)
                     => new.bids[1].price < new.asks[1].price]_vars

\* the mid price of a book was changed after a match had taken levels from
\* one side and left last_trade_price away from the mid price
C32_Witness ==
    /\ last.op = "update_market_price"
    /\ book_heap[1].mid_price = last.price
    /\ last.price # DEFAULT_PRICE
    /\ book_heap[1].last_trade_price # DEFAULT_PRICE
    /\ Len(book_heap[1].asks) < 5
    /\ book_heap[1].asks # <<>>
    /\ book_heap[1].bids # <<>>
    /\ book_heap[1].asks[1].price > last.price

\* C33: update_book_price(symbol, price) for a symbol without an order book
\* creates no book and changes no state; the book a later place_order creates
\* for the symbol is initialised from the reference price of that call.
C33_UpdateWithoutBook ==
    [][/\ (last'.op = "update_book_price" /\ ~HasBook(last'.req.symbol)) =>
             UNCHANGED <<orders, trades, positions, portfolios, order_books, book_heap, id_seq>>
       /\ \A sym \in Symbols :
             (PlaceStep /\ ~HasBook(sym) /\ order_books'[sym] # 0) =>
                 /\ sym = last'.req.symbol
                 /\ \E d \in BookDraws :
                       book_heap' = Append(book_heap,
                           ExecuteOnBook(PlacedOrder,
                               NewBook(last'.price, d.spread_bp, d.bid_qty, d.ask_qty)).book)
                 /\ book_heap'[order_books'[sym]].mid_price = last'.price]_vars

\* update_book_price was called with a price other than the reference price
\* for a symbol that has no book, after an order for the symbol was rejected
C33_Witness ==
    /\ last.op = "update_book_price"
    /\ ~HasBook(last.req.symbol)
    /\ book_heap = <<>>
    /\ last.price # DEFAULT_PRICE
    /\ \E i \in 1..Len(orders) : orders[i].symbol = last.req.symbol

\* the BUY quantity less the SELL quantity of the trades of a user in a symbol
NetTraded(trs, u, sym) ==
    SumSeq([i \in 1..Len(trs) |->
               IF trs[i].user_id = u /\ trs[i].symbol = sym
               THEN (IF trs[i].side = "BUY" THEN trs[i].quantity ELSE -trs[i].quantity)
               ELSE 0])

\* C34: after any sequence of completed place_order calls, for every user
\* and symbol the quantity of the stored position is the sum of the BUY trade
\* quantities of the user in the symbol less the sum of the SELL trade
\* quantities, and a position is stored exactly when that net quantity is not
\* zero.
C34_PositionIsNetOfTrades ==
    \A u \in Users, sym \in Symbols :
        LET held == SelectSeq(positions, LAMBDA p : p.user_id = u /\ p.symbol = sym)
            net == NetTraded(trades, u, sym)
        IN  /\ (held # <<>>) <=> (net # 0)
            /\ \A i \in 1..Len(held) : held[i].quantity = net

\* a user bought and sold the same quantity and holds no position, while
\* another user holds one
C34_Witness ==
    \E u \in Users, sym \in Symbols :
        /\ \E a, b \in 1..Len(trades) :
              /\ trades[a].user_id = u /\ trades[a].side = "BUY"
              /\ trades[b].user_id = u /\ trades[b].side = "SELL"
        /\ NetTraded(trades, u, sym) = 0
        /\ FindPosition(positions, u, sym) = 0

\* every place_order call has returned
Quiescent == \A t \in Threads : th[t].pc = "idle"

RECURSIVE PortfolioAfter(_, _)
\* the portfolio after _update_portfolio has run for the orders, one call
\* after the other
PortfolioAfter(portfolio, ords) ==
    IF ords = <<>> THEN portfolio
    ELSE LET w == PortfolioWrite(portfolio, Head(ords))
         IN  PortfolioAfter([portfolio EXCEPT !.cash_balance = w.cash_balance,
                                              !.margin_used = w.margin_used,
                                              !.margin_available = w.margin_available],
                            Tail(ords))

\* the stored portfolio of the user carries the cash and margin deltas of
\* every filled order of the user
PortfolioReflectsOrders(u) ==
    LET i == FindPortfolio(portfolios, u)
        filled == SelectSeq(OfUser(orders, u), LAMBDA o : o.filled_quantity > 0)
        expected == PortfolioAfter(InitialPortfolio(u), filled)
    IN  i # 0 => /\ portfolios[i].cash_balance = expected.cash_balance
                 /\ portfolios[i].margin_used = expected.margin_used

\* the position that find_one returns for the user and the symbol carries
\* the fills of every trade of the user in the symbol
PositionReflectsTrades(u, sym) ==
    LET i == FindPosition(positions, u, sym)
        net == NetTraded(trades, u, sym)
    IN  net # 0 => i # 0 /\ positions[i].quantity = net

\* C35: when place_order calls of one user that produce fills run
\* concurrently, no update is lost: once all of them have returned,
\* cash_balance and margin_used of the user's portfolio carry the deltas of
\* every filled order, and the position quantity of a symbol carries every
\* fill in that symbol.
C35_NoLostUpdate ==
    Quiescent =>
        \A u \in ConcUsers :
            /\ PortfolioReflectsOrders(u)
            /\ \A sym \in Symbols : PositionReflectsTrades(u, sym)

\* cash_balance of the user's portfolio; _update_portfolio starts from the
\* initial portfolio when none is stored
CashOf(pfs, u) ==
    IF FindPortfolio(pfs, u) = 0 THEN INITIAL_CASH
    ELSE pfs[FindPortfolio(pfs, u)].cash_balance

\* what the trades pay (-) or receive (+): the signed sum of their net_value
SignedNetValue(trs) ==
    SumSeq([k \in 1..Len(trs) |->
               IF trs[k].side = "BUY" THEN -trs[k].net_value ELSE trs[k].net_value])

\* C36: the cash ledger agrees with the trade ledger: the commission of every
\* trade is min(flat fee, 0.05% of the value of the trade), and the change of
\* cash_balance that a place_order call with fills applies is the signed sum
\* of the net_value of the trades of the order (minus for BUY, plus for
\* SELL), also when the order is filled in several fills.
C36_CashAgreesWithTrades ==
    [][(PlaceStep /\ NewTrades # <<>>) =>
          /\ \A k \in 1..Len(NewTrades) :
                NewTrades[k].commission
                    = Min(FLAT_FEE, NewTrades[k].value \div COMMISSION_DIV)
          /\ CashOf(portfolios', last'.user) - CashOf(portfolios, last'.user)
                = SignedNetValue(NewTrades)]_vars

\* C37: every stored order with status REJECTED has filled_quantity 0 and no
\* avg_fill_price, and no trade carries its order id, also when the call
\* failed after the fills were obtained, in the generation of the trades or
\* in the update of the position or of the portfolio.
C37_RejectedHasNoFills ==
    \A i \in 1..Len(orders) :
        orders[i].status = "REJECTED" =>
            /\ orders[i].filled_quantity = 0
            /\ orders[i].avg_fill_price = NoneRat
            /\ TradesOf(trades, orders[i].order_id) = <<>>

\* margin_used of the user's portfolio, 0 when none is stored
MarginUsedOf(pfs, u) ==
    IF FindPortfolio(pfs, u) = 0 THEN 0 ELSE pfs[FindPortfolio(pfs, u)].margin_used

\* C38: margin_used of a user never decreases over any sequence of
\* operations: no step of any call lowers the stored margin_used of a user
\* (every fill adds the value of the fills for a BUY and the span margin of
\* the whole order for a SELL, and no fill releases margin).
C38_MarginUsedNeverDecreases ==
    [][\A u \in Users : MarginUsedOf(portfolios', u) >= MarginUsedOf(portfolios, u)]_vars

\* what C38 says of one call, for calls that run to completion: a
\* place_order call with fills raises margin_used by the value of the fills
\* for a BUY and by the span margin of the whole order for a SELL
FillAddsMargin ==
    [][(PlaceStep /\ NewTrades # <<>>) =>
          LET added == MarginUsedOf(portfolios', last'.user)
                           - MarginUsedOf(portfolios, last'.user)
              value == SumSeq([k \in 1..Len(NewTrades) |-> NewTrades[k].value])
          IN  /\ added >= 0
              /\ added = IF last'.req.side = "BUY" THEN value
                         ELSE calculate_margin(InsertedOrder, InsertedOrder.avg_fill_price)]_vars

\* the levels of a book are well formed
WellFormedBook(book) ==
    /\ StrictlyOrdered(book.bids, TRUE)
    /\ StrictlyOrdered(book.asks, FALSE)
    /\ \A i \in 1..Len(book.bids) : book.bids[i].qty > 0
    /\ \A i \in 1..Len(book.asks) : book.asks[i].qty > 0
    /\ (book.bids # <<>> /\ book.asks # <<>>) => book.bids[1].price < book.asks[1].price

\* C39: in every state reachable from a fresh book by match_market,
\* check_limit and update_market_price calls with positive mid prices, the
\* bids stand in strictly descending price order, the asks in strictly
\* ascending price order, every stored level has a quantity above 0, and the
\* best bid is below the best ask whenever both sides have levels.
C39_BookWellFormed ==
    \A i \in 1..Len(book_heap) : WellFormedBook(book_heap[i])

\* both sides of the book were matched, a level of each was filled in part
\* and levels of each are left, and the prices were then moved to another mid
\* price
C39_Witness ==
    /\ last.op = "update_market_price"
    /\ book_heap[1].mid_price # DEFAULT_PRICE
    /\ Len(book_heap[1].bids) \in 2..(LEVELS - 1)
    /\ Len(book_heap[1].asks) \in 2..(LEVELS - 1)
    /\ \E d \in BookDraws :
          /\ book_heap[1].bids[1].qty < d.bid_qty[LEVELS - Len(book_heap[1].bids) + 1]
          /\ book_heap[1].asks[1].qty < d.ask_qty[LEVELS - Len(book_heap[1].asks) + 1]

====
